---- MODULE Spec2Model ----
(***************************************************************************)
(* A model of the batch execution core of integration_framework:           *)
(* BatchRunner (integration_framework/batch.py), SupportManager            *)
(* (integration_framework/support_manager.py) and TelemetryManager         *)
(* (integration_framework/telemetry.py).                                   *)
(*                                                                         *)
(* Time is counted in ticks of 0.1 s.  Exceptions are represented by their *)
(* message string; NoExc stands for "nothing was raised".  The exceptions  *)
(* raised by plugin stages are instances of Exception.                     *)
(***************************************************************************)
EXTENDS Integers, Sequences, FiniteSets, TLC

(***************************************************************************)
(* Bounds of the model.                                                    *)
(***************************************************************************)
MaxOps == 1          \* top-level operations invoked in one behaviour

(***************************************************************************)
(* Program constants.                                                      *)
(***************************************************************************)
InitialDelay == 10   \* SupportManager.initial_delay = 1.0 s
Multiplier == 2      \* SupportManager.multiplier = 2.0
MaxDelay == 600      \* SupportManager.max_delay = 60.0 s
MaxTries == 3        \* backoff.on_predicate(max_tries=3)
CacheTTL == 864000   \* BatchRunner.cache_ttl = 24 h
T0 == 1000           \* the clock at process start (time.time() is far beyond max_delay)

NoExc == "NoExc"
None == "None"
StoreError == "database is locked"       \* sqlite3.OperationalError from log_run
ImportCrash == "invalid syntax"
BadTimestamp == "fromisoformat: argument must be str"          \* a module whose import raises something else than ImportError

Names == {"hello", "p1", "p2"}
Stages == <<"construct", "fetch", "transform", "deliver">>

CfgKinds == {"missing", "malformed", "noflag", "disabled", "enabled"}
ImplKinds == {"hello", "stub", "weather", "absent", "import_error", "import_crash",
              "no_subclass"}
FailKinds == {"none", "construct", "fetch", "transform", "deliver"}

(***************************************************************************)
(* The plugin directories a behaviour starts from: for each plugin the     *)
(* state of its config manifest, of its implementation module and, for a   *)
(* stub implementation, the stage that raises.                             *)
(***************************************************************************)
Profiles ==
    {[cfg |-> "enabled", impl |-> "stub", failAt |-> f] : f \in FailKinds}
    \cup {[cfg |-> "enabled", impl |-> i, failAt |-> "none"] :
             i \in {"hello", "absent", "import_error", "import_crash", "no_subclass"}}
    \cup {[cfg |-> "disabled", impl |-> i, failAt |-> "none"] :
             i \in {"stub", "absent", "import_crash"}}
    \cup {[cfg |-> "disabled", impl |-> "stub", failAt |-> "construct"]}
    \cup {[cfg |-> c, impl |-> "stub", failAt |-> "none"] :
             c \in {"missing", "malformed", "noflag"}}
    \cup {[cfg |-> "missing", impl |-> "absent", failAt |-> "none"]}

HelloProfile == [cfg |-> "enabled", impl |-> "hello", failAt |-> "none"]
WeatherProfile == [cfg |-> "enabled", impl |-> "weather", failAt |-> "none"]
StubProfile(f) == [cfg |-> "enabled", impl |-> "stub", failAt |-> f]

\* the directories under which single calls are made: "p1" is any plugin
CallDisks ==
    {d \in [Names -> Profiles] :
        d["hello"] = HelloProfile /\ d["p2"] = StubProfile("none")}

\* the directories under which batches are run
BatchProfiles ==
    {StubProfile(f) : f \in {"none", "construct", "fetch", "deliver"}}
    \cup {[cfg |-> "enabled", impl |-> i, failAt |-> "none"] :
             i \in {"absent", "import_error", "import_crash", "no_subclass"}}
    \cup {[cfg |-> c, impl |-> "stub", failAt |-> "none"] :
             c \in {"disabled", "malformed", "noflag"}}

BatchDisks ==
    {d \in [Names -> Profiles] :
        /\ d["hello"] = HelloProfile
        /\ d["p1"] \in BatchProfiles
        /\ d["p2"] \in {StubProfile("none"), StubProfile("fetch")}}

Min2(a, b) == IF a < b THEN a ELSE b

RECURSIVE Pow(_, _)
Pow(b, e) == IF e = 0 THEN 1 ELSE b * Pow(b, e - 1)

(***************************************************************************)
(* SupportManager: the backoff notifier.                                   *)
(***************************************************************************)
EmptyBackoff == [k \in {} |-> <<0, 0>>]

BackoffGet(st, key) == IF key \in DOMAIN st THEN st[key] ELSE <<0, 0>>

BackoffPut(st, key, v) ==
    [k \in (DOMAIN st) \cup {key} |-> IF k = key THEN v ELSE st[k]]

\* a window that is not capped at max_delay
DelayUncapped(retry_count) == InitialDelay * Pow(Multiplier, retry_count)

Delay(retry_count) == Min2(InitialDelay * Pow(Multiplier, retry_count), MaxDelay)

\* a _should_log that counts the suppressed attempts of a channel
ShouldLogCounting(st, key, current_time) ==
    LET last_time == BackoffGet(st, key)[1]
        retry_count == BackoffGet(st, key)[2]
    IN  IF current_time < last_time + Delay(retry_count)
        THEN [ok |-> FALSE, st |-> BackoffPut(st, key, <<last_time, retry_count + 1>>)]
        ELSE [ok |-> TRUE, st |-> st]

\* a _should_log that still suppresses at the instant the window ends
ShouldLogInclusive(st, key, current_time) ==
    LET last_time == BackoffGet(st, key)[1]
        retry_count == BackoffGet(st, key)[2]
    IN  IF current_time <= last_time + Delay(retry_count)
        THEN [ok |-> FALSE, st |-> BackoffPut(st, key, <<last_time, 0>>)]
        ELSE [ok |-> TRUE, st |-> st]

\* _should_log: inside the window the retry count is reset and False returned
ShouldLog(st, key, current_time) ==
    LET last_time == BackoffGet(st, key)[1]
        retry_count == BackoffGet(st, key)[2]
    IN  IF current_time < last_time + Delay(retry_count)
        THEN [ok |-> FALSE, st |-> BackoffPut(st, key, <<last_time, 0>>)]
        ELSE [ok |-> TRUE, st |-> st]

\* the body of log_with_backoff: one emission attempt at current_time
LogAttempt(st, key, message, current_time) ==
    LET s == ShouldLog(st, key, current_time)
    IN  IF s.ok
        THEN [ret |-> <<TRUE, current_time>>, st |-> s.st,
              out |-> <<[key |-> key, msg |-> message, time |-> current_time]>>]
        ELSE [ret |-> <<FALSE, current_time>>, st |-> s.st, out |-> <<>>]

\* a decorated log_with_backoff whose on_success handler is missing
RECURSIVE LogWithBackoffNoHandler(_, _, _, _, _, _)
LogWithBackoffNoHandler(st, key, message, t, sleeps, tries) ==
    LET a == LogAttempt(st, key, message, t)
    IN  IF a.ret[1]
        THEN [emitted |-> TRUE, time |-> t, now |-> t, tries |-> tries,
              st |-> a.st, out |-> a.out]
        ELSE IF tries >= MaxTries
        THEN [emitted |-> FALSE, time |-> t, now |-> t, tries |-> tries,
              st |-> a.st, out |-> <<>>]
        ELSE LogWithBackoffNoHandler(a.st, key, message, t + sleeps[tries], sleeps, tries + 1)

\* log_with_backoff as decorated by backoff.on_predicate: an attempt whose
\* result is (False, _) is repeated after a sleep, at most MaxTries attempts;
\* on_success stores (observed time, 0) for the key.
RECURSIVE LogWithBackoff(_, _, _, _, _, _)
LogWithBackoff(st, key, message, t, sleeps, tries) ==
    LET a == LogAttempt(st, key, message, t)
    IN  IF a.ret[1]
        THEN [emitted |-> TRUE, time |-> t, now |-> t, tries |-> tries,
              st |-> BackoffPut(a.st, key, <<a.ret[2], 0>>), out |-> a.out]
        ELSE IF tries >= MaxTries
        THEN [emitted |-> FALSE, time |-> t, now |-> t, tries |-> tries,
              st |-> a.st, out |-> <<>>]
        ELSE LogWithBackoff(a.st, key, message, t + sleeps[tries], sleeps, tries + 1)

NotifyKey(integration_name) ==
    "notify_" \o (IF integration_name = None THEN "default" ELSE integration_name)

Notify(st, message, integration_name, t, sleeps) ==
    LogWithBackoff(st, NotifyKey(integration_name), message, t, sleeps, 1)

(***************************************************************************)
(* TelemetryManager: the metrics store.                                    *)
(***************************************************************************)
LogRunRow(integration_name, status, duration, t, error) ==
    [integration_name |-> integration_name, status |-> status,
     duration |-> duration, timestamp |-> t, error |-> error]

\* log_run: one INSERT; `fails` is the store refusing the write
LogRun(fails, integration_name, status, duration, t, error) ==
    IF fails
    THEN [rows |-> <<>>, exc |-> StoreError]
    ELSE [rows |-> <<LogRunRow(integration_name, status, duration, t, error)>>,
          exc |-> NoExc]

\* TelemetryManager._initialize_db: CREATE TABLE IF NOT EXISTS leaves the rows
InitializeDb(rows) == rows

SeedRefused == "table telemetry has 6 columns but 3 values were supplied"

\* an __enter__ whose seed row is accepted by the table
SqlEnterSeeds(rows) ==
    [rows |-> rows \o <<[integration_name |-> "test", status |-> None, duration |-> 0,
                         timestamp |-> 0, error |-> None]>>,
     exc |-> NoExc]

\* SQLQueryManager.__enter__ on the table that TelemetryManager created: its
\* own CREATE TABLE IF NOT EXISTS does nothing and its INSERT of three values
\* is refused by the six-column table
SqlEnter(rows) == [rows |-> rows, exc |-> SeedRefused]

(***************************************************************************)
(* The calendar.  Tick 0 is the first instant of the epoch month; an ISO   *)
(* timestamp is kept as its tick, and ticks order as the ISO strings do.   *)
(***************************************************************************)
Epoch == [year |-> 2024, month |-> 11]

DayTicks == 24 * 36000

IsLeap(year) == (year % 4 = 0 /\ year % 100 # 0) \/ year % 400 = 0

DaysInMonth(year, month) ==
    IF month \in {4, 6, 9, 11} THEN 30
    ELSE IF month = 2 THEN (IF IsLeap(year) THEN 29 ELSE 28)
    ELSE 31

PrevMonth(ym) ==
    IF ym.month = 1 THEN [year |-> ym.year - 1, month |-> 12]
    ELSE [year |-> ym.year, month |-> ym.month - 1]

\* the days from the first of January of the epoch year to the first of the
\* month
RECURSIVE DaysTo(_)
DaysTo(ym) ==
    IF ym = [year |-> Epoch.year, month |-> 1] THEN 0
    ELSE DaysTo(PrevMonth(ym)) + DaysInMonth(PrevMonth(ym).year, PrevMonth(ym).month)

\* datetime(year, month, 1).isoformat(), for months from that January on
MonthStart(ym) == DayTicks * (DaysTo(ym) - DaysTo(Epoch))

\* datetime.strptime(period, "%Y-%m"): four digits, a dash, a month of one
\* or two digits; anything else is a ValueError
StrpTime(period) ==
    CASE period = "2024-11" -> [ok |-> TRUE, year |-> 2024, month |-> 11]
      [] period = "2024-12" -> [ok |-> TRUE, year |-> 2024, month |-> 12]
      [] period = "2025-01" -> [ok |-> TRUE, year |-> 2025, month |-> 1]
      [] period = "2025-1" -> [ok |-> TRUE, year |-> 2025, month |-> 1]
      [] OTHER -> [ok |-> FALSE, year |-> 0, month |-> 0]

\* an end date that stays in the year of the start date
EndDateSameYear(start_date) ==
    IF start_date.month < 12
    THEN [year |-> start_date.year, month |-> (start_date.month % 12) + 1]
    ELSE [year |-> start_date.year, month |-> 1]

\* end_date of generate_report: the first day of the next month
EndDate(start_date) ==
    IF start_date.month < 12
    THEN [year |-> start_date.year, month |-> (start_date.month % 12) + 1]
    ELSE [year |-> start_date.year + 1, month |-> 1]

RECURSIVE SumDuration(_)
SumDuration(rows) ==
    IF rows = <<>> THEN 0 ELSE Head(rows).duration + SumDuration(Tail(rows))

\* a count that looks for the status 'error' where 'failed' is asked for
CountStatusError(rows, status) ==
    Cardinality({i \in 1..Len(rows) :
                    rows[i].status = (IF status = "failed" THEN "error" ELSE status)})

CountStatus(rows, status) ==
    Cardinality({i \in 1..Len(rows) : rows[i].status = status})

\* the SELECT of generate_report: the rows of the period, grouped by name;
\* avg_duration is the quotient num / den
SelectSummary(rows, start, end) ==
    LET inPeriod == SelectSeq(rows, LAMBDA r : r.timestamp >= start /\ r.timestamp < end)
        names == {inPeriod[i].integration_name : i \in 1..Len(inPeriod)}
        group(n) == SelectSeq(inPeriod, LAMBDA r : r.integration_name = n)
    IN  {[integration_name |-> n,
          run_count |-> Len(group(n)),
          success_count |-> CountStatus(group(n), "success"),
          error_count |-> CountStatus(group(n), "failed"),
          avg_duration |-> [num |-> SumDuration(group(n)), den |-> Len(group(n))]] :
            n \in names}

\* a generate_report that writes an empty report for an invalid period
GenerateReportAlwaysWrites(rows, period) ==
    LET start_date == StrpTime(period)
    IN  IF ~start_date.ok
        THEN [wrote |-> TRUE, file |-> "telemetry_report_" \o period \o ".csv",
              report |-> {}, rows |-> rows]
        ELSE [wrote |-> TRUE, file |-> "telemetry_report_" \o period \o ".csv",
              report |-> SelectSummary(rows,
                                       MonthStart([year |-> start_date.year,
                                                   month |-> start_date.month]),
                                       MonthStart(EndDate(start_date))),
              rows |-> rows]

\* generate_report: an invalid period is logged and nothing else happens;
\* otherwise the summary is written to output/telemetry_report_<period>.csv
GenerateReport(rows, period) ==
    LET start_date == StrpTime(period)
    IN  IF ~start_date.ok
        THEN [wrote |-> FALSE, file |-> None, report |-> {}, rows |-> rows]
        ELSE [wrote |-> TRUE, file |-> "telemetry_report_" \o period \o ".csv",
              report |-> SelectSummary(rows,
                                       MonthStart([year |-> start_date.year,
                                                   month |-> start_date.month]),
                                       MonthStart(EndDate(start_date))),
              rows |-> rows]

(***************************************************************************)
(* Plugin loading.                                                         *)
(***************************************************************************)
EmptyDict == [k \in {} |-> FALSE]

\* a load_config that answers a default manifest when the file is missing
LoadConfigDefaultManifest(d, n) ==
    CASE d[n].cfg \in {"enabled", "missing"} -> [k \in {"enabled"} |-> TRUE]
      [] d[n].cfg = "disabled" -> [k \in {"enabled"} |-> FALSE]
      [] OTHER -> EmptyDict

\* load_config: the manifest as a mapping; missing or malformed gives {}
LoadConfig(d, n) ==
    CASE d[n].cfg = "enabled" -> [k \in {"enabled"} |-> TRUE]
      [] d[n].cfg = "disabled" -> [k \in {"enabled"} |-> FALSE]
      [] OTHER -> EmptyDict

\* a lookup that reads an absent key as true
DictGetAbsentTrue(dict, key, default) == IF key \in DOMAIN dict THEN dict[key] ELSE TRUE

DictGet(dict, key, default) == IF key \in DOMAIN dict THEN dict[key] ELSE default

\* a load_integration that accepts the imported Integration base class itself
LoadIntegrationAnyClass(d, n) ==
    CASE d[n].impl \in {"hello", "stub", "weather"} -> [cls |-> d[n].impl, exc |-> NoExc]
      [] d[n].impl = "no_subclass" -> [cls |-> "stub", exc |-> NoExc]
      [] d[n].impl = "import_crash" -> [cls |-> None, exc |-> ImportCrash]
      [] OTHER -> [cls |-> None, exc |-> NoExc]

\* load_integration: the class found in the module, None, or an exception
\* that is not an ImportError and so escapes both except clauses
LoadIntegration(d, n) ==
    CASE d[n].impl \in {"hello", "stub", "weather"} -> [cls |-> d[n].impl, exc |-> NoExc]
      [] d[n].impl = "import_crash" -> [cls |-> None, exc |-> ImportCrash]
      [] OTHER -> [cls |-> None, exc |-> NoExc]

(***************************************************************************)
(* The Integration contract as implemented by the plugins.                 *)
(***************************************************************************)
ErrMsg(stage) == stage \o " error"

StageRaises(d, n, stage) == d[n].impl = "stub" /\ d[n].failAt = stage

\* calling a method declared with async def runs none of its body and
\* returns a coroutine object
Coroutine(data) == "<coroutine " \o data \o ">"

NotSubscriptable == "'coroutine' object is not subscriptable"

\* what integration.fetch_data() evaluates to: the weather plugin declares
\* fetch_data with async def
FetchData(d, n) ==
    CASE d[n].impl = "hello" -> "Hello, World!"
      [] d[n].impl = "weather" -> Coroutine("raw " \o n)
      [] OTHER -> "raw " \o n

\* postprocess_data of the weather plugin subscripts its argument
SubscriptRaises(d, n, data) == d[n].impl = "weather" /\ data = Coroutine("raw " \o n)

PostprocessData(d, n, data) ==
    IF d[n].impl = "hello" THEN data ELSE "processed " \o data

DeliverMessage(d, n, data) ==
    IF d[n].impl = "hello" THEN "Message from " \o n \o ": " \o data
    ELSE "Delivered " \o data

Ev(stage, arg, out) == [stage |-> stage, arg |-> arg, out |-> out]


(***************************************************************************)
(* One plugin run.  `in` holds what the environment decides during the     *)
(* run: work (ticks spent in fetch), faults (does the k-th log_run of the  *)
(* run fail), sleeps (the jittered sleeps between the attempts of a        *)
(* suppressed notification).                                               *)
(***************************************************************************)
RunResult(trace, rows, st, t, out, raised) ==
    [trace |-> trace, rows |-> rows, st |-> st, now |-> t, out |-> out,
     raised |-> raised]

\* the except clause of run_integration: record the failure
ExceptClause(n, e, trace, st, start_time, t, out, fails) ==
    LET w == LogRun(fails, n, "failed", t - start_time, t, e)
    IN  RunResult(trace \o <<Ev("log_run", "failed", IF fails THEN "raise" ELSE e)>>,
                  w.rows, st, t, out, w.exc)

\* deliver_results returned: completion notice, then the success row
AfterDeliver(n, trace, st, start_time, t, out, in) ==
    LET duration == t - start_time
        c == Notify(st, "Completed " \o n, None, t, in.sleeps)
        tr1 == trace \o <<Ev("notify", "Completed " \o n,
                             IF c.emitted THEN "emitted" ELSE "suppressed")>>
        w == LogRun(in.faults[1], n, "success", duration, c.now, None)
        tr2 == tr1 \o <<Ev("log_run", "success",
                           IF in.faults[1] THEN "raise" ELSE "ok")>>
    IN  IF w.exc = NoExc
        THEN RunResult(tr2, w.rows, c.st, c.now, out \o c.out, NoExc)
        ELSE ExceptClause(n, w.exc, tr2, c.st, start_time, c.now, out \o c.out,
                          in.faults[2])

\* deliver_results of the plugin: its notification goes through the notifier
DeliverResults(d, n, data, trace, st, start_time, t, in) ==
    IF StageRaises(d, n, "deliver")
    THEN ExceptClause(n, ErrMsg("deliver"), trace \o <<Ev("deliver", data, "raise")>>,
                      st, start_time, t, <<>>, in.faults[1])
    ELSE LET m == Notify(st, DeliverMessage(d, n, data), None, t, in.sleeps)
         IN  AfterDeliver(n, trace \o <<Ev("deliver", data, "ok")>>, m.st,
                          start_time, m.now, m.out, in)

\* a transform stage whose result is dropped: deliver gets the fetched data
PostprocessStageDropped(d, n, data, trace, st, start_time, t, in) ==
    IF StageRaises(d, n, "transform")
    THEN ExceptClause(n, ErrMsg("transform"),
                      trace \o <<Ev("transform", data, "raise")>>,
                      st, start_time, t, <<>>, in.faults[1])
    ELSE DeliverResults(d, n, data,
                        trace \o <<Ev("transform", data, PostprocessData(d, n, data))>>,
                        st, start_time, t, in)

PostprocessStage(d, n, data, trace, st, start_time, t, in) ==
    IF StageRaises(d, n, "transform")
    THEN ExceptClause(n, ErrMsg("transform"),
                      trace \o <<Ev("transform", data, "raise")>>,
                      st, start_time, t, <<>>, in.faults[1])
    ELSE IF SubscriptRaises(d, n, data)
    THEN ExceptClause(n, NotSubscriptable,
                      trace \o <<Ev("transform", data, "raise")>>,
                      st, start_time, t, <<>>, in.faults[1])
    ELSE DeliverResults(d, n, PostprocessData(d, n, data),
                        trace \o <<Ev("transform", data, PostprocessData(d, n, data))>>,
                        st, start_time, t, in)

FetchStage(d, n, trace, st, start_time, t, in) ==
    IF StageRaises(d, n, "fetch")
    THEN ExceptClause(n, ErrMsg("fetch"), trace \o <<Ev("fetch", n, "raise")>>,
                      st, start_time, t + in.work, <<>>, in.faults[1])
    ELSE PostprocessStage(d, n, FetchData(d, n),
                          trace \o <<Ev("fetch", n, FetchData(d, n))>>,
                          st, start_time, t + in.work, in)

\* the try block of run_integration, entered at start_time = t
TryBlock(d, n, trace, st, t, in) ==
    IF StageRaises(d, n, "construct")
    THEN ExceptClause(n, ErrMsg("construct"), trace \o <<Ev("construct", n, "raise")>>,
                      st, t, t, <<>>, in.faults[1])
    ELSE FetchStage(d, n, trace \o <<Ev("construct", n, "ok")>>, st, t, t, in)

\* BatchRunner.run_integration
RunIntegration(d, n, st, t, in) ==
    LET config == LoadConfig(d, n)
        enabled == DictGet(config, "enabled", FALSE)
        tr0 == <<Ev("load_config", n, IF enabled THEN "enabled" ELSE "disabled")>>
        ld == LoadIntegration(d, n)
        tr1 == tr0 \o <<Ev("load_integration", n,
                           IF ld.exc # NoExc THEN "raise" ELSE ld.cls)>>
    IN  IF ~enabled THEN RunResult(tr0, <<>>, st, t, <<>>, NoExc)
        ELSE IF ld.exc # NoExc THEN RunResult(tr1, <<>>, st, t, <<>>, ld.exc)
        ELSE IF ld.cls = None THEN RunResult(tr1, <<>>, st, t, <<>>, NoExc)
        ELSE TryBlock(d, n, tr1, st, t, in)

\* a worker that runs on a notifier on which a sibling has just emitted
ProcRunIntegrationSharedNotifier(d, n, t, in) ==
    LET config == LoadConfig(d, n)
        enabled == DictGet(config, "enabled", FALSE)
        tr0 == <<Ev("load_config", n, IF enabled THEN "enabled" ELSE "disabled")>>
        ld == LoadIntegration(d, n)
        tr1 == tr0 \o <<Ev("load_integration", n,
                           IF ld.exc # NoExc THEN "raise" ELSE ld.cls)>>
        shared == BackoffPut(EmptyBackoff, NotifyKey(None), <<t, 0>>)
    IN  IF d[n].cfg \in {"missing", "malformed"}
        THEN RunResult(tr0, <<>>, EmptyBackoff, t, <<>>, NoExc)
        ELSE IF ~enabled THEN RunResult(tr0, <<>>, EmptyBackoff, t, <<>>, NoExc)
        ELSE IF ld.exc # NoExc THEN RunResult(tr1, <<>>, EmptyBackoff, t, <<>>, ld.exc)
        ELSE IF ld.cls = None THEN RunResult(tr1, <<>>, EmptyBackoff, t, <<>>, NoExc)
        ELSE TryBlock(d, n, tr1, shared, t, in)

\* _run_integration: the worker of process-parallel mode; it builds its own
\* SupportManager, whose state is lost when the worker returns, reads the
\* manifest itself (a missing or malformed one ends the run) and imports the
\* module itself
ProcRunIntegration(d, n, t, in) ==
    LET config == LoadConfig(d, n)
        enabled == DictGet(config, "enabled", FALSE)
        tr0 == <<Ev("load_config", n, IF enabled THEN "enabled" ELSE "disabled")>>
        ld == LoadIntegration(d, n)
        tr1 == tr0 \o <<Ev("load_integration", n,
                           IF ld.exc # NoExc THEN "raise" ELSE ld.cls)>>
    IN  IF d[n].cfg \in {"missing", "malformed"}
        THEN RunResult(tr0, <<>>, EmptyBackoff, t, <<>>, NoExc)
        ELSE IF ~enabled THEN RunResult(tr0, <<>>, EmptyBackoff, t, <<>>, NoExc)
        ELSE IF ld.exc # NoExc THEN RunResult(tr1, <<>>, EmptyBackoff, t, <<>>, ld.exc)
        ELSE IF ld.cls = None THEN RunResult(tr1, <<>>, EmptyBackoff, t, <<>>, NoExc)
        ELSE TryBlock(d, n, tr1, EmptyBackoff, t, in)

\* what the environment may decide during one run: the sleeps are uniform
\* in [0, 1 s] and [0, 2 s]; a later log_run is reached only when the one
\* before it failed
Sleeps == {<<0, 0>>, <<4, 6>>}
Faults == {<<FALSE, FALSE>>, <<TRUE, FALSE>>, <<TRUE, TRUE>>}
RunInputs == [work : {0, 3}, faults : Faults, sleeps : Sleeps]
BatchInputs == [work : {0}, faults : Faults, sleeps : {<<0, 0>>}]

(***************************************************************************)
(* Validation and its cache.  A cache entry is the JSON object stored for  *)
(* a name; form tells which of its fields can be read: "no_timestamp" and  *)
(* "no_valid" lack the key, "bad_timestamp" holds a string that is no ISO  *)
(* date, "null_timestamp" holds a JSON value that is not a string.         *)
(***************************************************************************)
EmptyCache == [k \in {} |-> [valid |-> FALSE, timestamp |-> 0, form |-> "ok"]]

CacheEntry(valid, t) == [valid |-> valid, timestamp |-> t, form |-> "ok"]

\* a store that keeps an entry the file already has (dict.setdefault)
CachePutIfAbsent(c, n, e) == [k \in (DOMAIN c) \cup {n} |-> IF k \in DOMAIN c THEN c[k] ELSE e]

CachePut(c, n, e) == [k \in (DOMAIN c) \cup {n} |-> IF k = n THEN e ELSE c[k]]

\* the cache lookup of validate_integration: a verdict is returned only
\* from an entry whose timestamp parses and is younger than the TTL
\* (KeyError and ValueError are caught); fromisoformat of a value that is
\* not a string raises TypeError, which is not caught
CachedVerdict(c, n, t) ==
    IF n \notin DOMAIN c THEN [hit |-> FALSE, valid |-> FALSE, exc |-> NoExc]
    ELSE IF c[n].form \in {"no_timestamp", "bad_timestamp"}
    THEN [hit |-> FALSE, valid |-> FALSE, exc |-> NoExc]
    ELSE IF c[n].form = "null_timestamp"
    THEN [hit |-> FALSE, valid |-> FALSE, exc |-> BadTimestamp]
    ELSE IF t - c[n].timestamp < CacheTTL
    THEN IF c[n].form = "no_valid" THEN [hit |-> FALSE, valid |-> FALSE, exc |-> NoExc]
         ELSE [hit |-> TRUE, valid |-> c[n].valid, exc |-> NoExc]
    ELSE [hit |-> FALSE, valid |-> FALSE, exc |-> NoExc]

ValidateResult(ret, returned, raised, trace, c, hit) ==
    [ret |-> ret, returned |-> returned, raised |-> raised, trace |-> trace,
     cache |-> c, hit |-> hit]

\* a write-back that stores only the verdicts that are true
WriteBackValidOnly(c, n, valid, t, saveFails, trace) ==
    ValidateResult(valid, TRUE, NoExc, trace,
                   IF saveFails \/ ~valid THEN c ELSE CachePut(c, n, CacheEntry(valid, t)),
                   FALSE)

\* the write-back of validate_integration; save_validation_cache swallows
\* a failed write
WriteBack(c, n, valid, t, saveFails, trace) ==
    ValidateResult(valid, TRUE, NoExc, trace,
                   IF saveFails THEN c ELSE CachePut(c, n, CacheEntry(valid, t)),
                   FALSE)

\* a validate_integration that loads the module before it looks at 'enabled'
ValidateIntegrationLoadFirst(d, n, c, t, saveFails) ==
    LET cached == CachedVerdict(c, n, t)
        config == LoadConfig(d, n)
        enabled == DictGet(config, "enabled", FALSE)
        tr0 == <<Ev("load_config", n, IF enabled THEN "enabled" ELSE "disabled")>>
        ld == LoadIntegration(d, n)
        tr1 == tr0 \o <<Ev("load_integration", n,
                           IF ld.exc # NoExc THEN "raise" ELSE ld.cls)>>
    IN  IF cached.exc # NoExc
        THEN ValidateResult(FALSE, FALSE, cached.exc, <<>>, c, FALSE)
        ELSE IF cached.hit
        THEN ValidateResult(cached.valid, TRUE, NoExc, <<>>, c, TRUE)
        ELSE IF ld.exc # NoExc
        THEN ValidateResult(FALSE, FALSE, ld.exc, tr1, c, FALSE)
        ELSE IF ~enabled THEN WriteBack(c, n, TRUE, t, saveFails, tr1)
        ELSE IF ld.cls = None THEN WriteBack(c, n, FALSE, t, saveFails, tr1)
        ELSE IF StageRaises(d, n, "construct")
        THEN WriteBack(c, n, FALSE, t, saveFails,
                       tr1 \o <<Ev("construct", n, "raise")>>)
        ELSE WriteBack(c, n, TRUE, t, saveFails,
                       tr1 \o <<Ev("construct", n, "ok")>>)

\* BatchRunner.validate_integration
ValidateIntegration(d, n, c, t, saveFails) ==
    LET cached == CachedVerdict(c, n, t)
        config == LoadConfig(d, n)
        enabled == DictGet(config, "enabled", FALSE)
        tr0 == <<Ev("load_config", n, IF enabled THEN "enabled" ELSE "disabled")>>
        ld == LoadIntegration(d, n)
        tr1 == tr0 \o <<Ev("load_integration", n,
                           IF ld.exc # NoExc THEN "raise" ELSE ld.cls)>>
    IN  IF cached.exc # NoExc
        THEN ValidateResult(FALSE, FALSE, cached.exc, <<>>, c, FALSE)
        ELSE IF cached.hit
        THEN ValidateResult(cached.valid, TRUE, NoExc, <<>>, c, TRUE)
        ELSE IF ~enabled THEN WriteBack(c, n, TRUE, t, saveFails, tr0)
        ELSE IF ld.exc # NoExc
        THEN ValidateResult(FALSE, FALSE, ld.exc, tr1, c, FALSE)
        ELSE IF ld.cls = None THEN WriteBack(c, n, FALSE, t, saveFails, tr1)
        ELSE IF StageRaises(d, n, "construct")
        THEN WriteBack(c, n, FALSE, t, saveFails,
                       tr1 \o <<Ev("construct", n, "raise")>>)
        ELSE WriteBack(c, n, TRUE, t, saveFails,
                       tr1 \o <<Ev("construct", n, "ok")>>)

(***************************************************************************)
(* Discovery and filtering.                                                *)
(***************************************************************************)
\* get_integrations: the directories holding __init__.py and config.yaml
Discovered(d) == {n \in Names : d[n].impl # "absent" /\ d[n].cfg # "missing"}

\* the orders in which directory iteration may list them
Orders(S) ==
    {o \in [1..Cardinality(S) -> S] : \A i, j \in 1..Cardinality(S) : o[i] = o[j] => i = j}

(***************************************************************************)
(* Metadata.  metadata.yaml is a mapping; a plugin directory without the   *)
(* file has no meta field.  A last_updated value is kept by its kind:      *)
(* "iso" a string holding the date day, "na" the string 'N/A', "garbage" a *)
(* string that is no date, "yaml_date" an unquoted YAML date, which        *)
(* safe_load turns into a date object.                                     *)
(***************************************************************************)
\* load_metadata
LoadMetadata(d, n) == IF "meta" \in DOMAIN d[n] THEN d[n].meta ELSE EmptyDict

DirMTime == 2

NotADate == "fromisoformat: argument must be str"

Iso(day) == [kind |-> "iso", day |-> day]
NA == [kind |-> "na", day |-> 0]
Garbage == [kind |-> "garbage", day |-> 0]
YamlDate(day) == [kind |-> "yaml_date", day |-> day]
NoDate == [kind |-> "none", day |-> 0]

\* get_last_updated: entering the SQLQueryManager inserts three values into
\* the six-column telemetry table and raises sqlite3.OperationalError, which
\* is passed over; then metadata, then the directory's mtime
GetLastUpdated(d, n) ==
    LET metadata == LoadMetadata(d, n)
    IN  IF "last_updated" \in DOMAIN metadata THEN metadata["last_updated"]
        ELSE IF d[n].impl # "absent" \/ d[n].cfg # "missing" THEN Iso(DirMTime)
        ELSE NA

\* SELECT MAX(timestamp) FROM telemetry WHERE integration_name = ?: one row,
\* holding NULL when no row of the table names the integration
MaxTimestamp(rows, n) ==
    LET S == {rows[i].timestamp : i \in {j \in DOMAIN rows : rows[j].integration_name = n}}
    IN  IF S = {} THEN NoDate ELSE [kind |-> "stored", day |-> CHOOSE m \in S : \A x \in S : x <= m]

\* BatchRunner.get_last_updated as a whole: the query runs only when the
\* SQLQueryManager could be entered; sqlite3.Error is passed over and the
\* metadata, the directory and the sentinel follow.  A stored timestamp is
\* kept as its tick in the field day.
GetLastUpdatedStore(rows, d, n) ==
    LET sql == SqlEnter(rows)
        timestamp == MaxTimestamp(sql.rows, n)
    IN  IF sql.exc = NoExc /\ timestamp # NoDate THEN timestamp
        ELSE GetLastUpdated(d, n)

\* fnmatch(integration_name, "*" + partial_name + "*")
FnMatch(n, partial_name) ==
    n \in (CASE partial_name = "p" -> {"p1", "p2"}
             [] partial_name = "ell" -> {"hello"}
             [] partial_name = "1" -> {"p1"}
             [] OTHER -> {})

Lower(str) ==
    CASE str = "Sales Sync" -> "sales sync"
      [] str = "CRM" -> "crm"
      [] OTHER -> str

\* a in b, for the strings in use
IsSubstring(a, b) ==
    a = "" \/ a = b \/ <<a, b>> \in {<<"sales", "sales sync">>, <<"sync", "sales sync">>}

\* the criteria as filter_integrations gets them; tags is the list given by
\* the caller, empty when no tag is asked for
NoCriteria ==
    [name |-> None, partial_name |-> None, tags |-> <<>>, business_contact |-> None,
     technical_contact |-> None, last_updated_before |-> NoDate,
     last_updated_after |-> NoDate, description_contains |-> None]

\* the last_updated_before test of one plugin: "pass", "skip" (continue) or
\* "raise" (TypeError of fromisoformat, which is not caught)
BeforeCheck(last_updated, before) ==
    IF before.kind = "none" THEN "pass"
    ELSE IF last_updated.kind = "na" THEN "pass"
    ELSE IF last_updated.kind = "yaml_date" THEN "raise"
    ELSE IF last_updated.kind = "garbage" \/ before.kind = "garbage" THEN "skip"
    ELSE IF last_updated.day > before.day THEN "skip"
    ELSE "pass"

\* the last_updated_after test of one plugin
AfterCheck(last_updated, after) ==
    IF after.kind = "none" THEN "pass"
    ELSE IF last_updated.kind = "na" THEN "skip"
    ELSE IF last_updated.kind = "yaml_date" THEN "raise"
    ELSE IF last_updated.kind = "garbage" \/ after.kind = "garbage" THEN "skip"
    ELSE IF last_updated.day < after.day THEN "skip"
    ELSE "pass"

\* the tags test taken as "some requested tag is in the plugin's tags"
TagsCheckAny(metadata, tags) ==
    \E i \in 1..Len(tags) : tags[i] \in DictGet(metadata, "tags", {})

\* the tags test: every requested tag is in the plugin's tags
TagsCheck(metadata, tags) ==
    \A i \in 1..Len(tags) : tags[i] \in DictGet(metadata, "tags", {})

\* one iteration in which a plugin named by the name criterion is kept
\* without looking at the other criteria
FilterOneNameAccepts(d, n, criteria) ==
    LET metadata == LoadMetadata(d, n)
        last_updated == GetLastUpdated(d, n)
        before == BeforeCheck(last_updated, criteria.last_updated_before)
        after == AfterCheck(last_updated, criteria.last_updated_after)
    IN  IF criteria.name # None /\ n # criteria.name THEN "skip"
        ELSE IF criteria.name # None THEN "keep"
        ELSE IF criteria.partial_name # None /\ ~FnMatch(n, criteria.partial_name)
        THEN "skip"
        ELSE IF criteria.tags # <<>> /\ ~TagsCheck(metadata, criteria.tags) THEN "skip"
        ELSE IF criteria.business_contact # None
                /\ DictGet(metadata, "business_contact", None) # criteria.business_contact
        THEN "skip"
        ELSE IF criteria.technical_contact # None
                /\ DictGet(metadata, "technical_contact", None) # criteria.technical_contact
        THEN "skip"
        ELSE IF before # "pass" THEN before
        ELSE IF after # "pass" THEN after
        ELSE IF criteria.description_contains # None
                /\ ~IsSubstring(Lower(criteria.description_contains),
                                Lower(DictGet(metadata, "description", "")))
        THEN "skip"
        ELSE "keep"

\* one iteration of the loop of filter_integrations: "keep", "skip" or "raise"
FilterOne(d, n, criteria) ==
    LET metadata == LoadMetadata(d, n)
        last_updated == GetLastUpdated(d, n)
        before == BeforeCheck(last_updated, criteria.last_updated_before)
        after == AfterCheck(last_updated, criteria.last_updated_after)
    IN  IF criteria.name # None /\ n # criteria.name THEN "skip"
        ELSE IF criteria.partial_name # None /\ ~FnMatch(n, criteria.partial_name)
        THEN "skip"
        ELSE IF criteria.tags # <<>> /\ ~TagsCheck(metadata, criteria.tags) THEN "skip"
        ELSE IF criteria.business_contact # None
                /\ DictGet(metadata, "business_contact", None) # criteria.business_contact
        THEN "skip"
        ELSE IF criteria.technical_contact # None
                /\ DictGet(metadata, "technical_contact", None) # criteria.technical_contact
        THEN "skip"
        ELSE IF before # "pass" THEN before
        ELSE IF after # "pass" THEN after
        ELSE IF criteria.description_contains # None
                /\ ~IsSubstring(Lower(criteria.description_contains),
                                Lower(DictGet(metadata, "description", "")))
        THEN "skip"
        ELSE "keep"

\* the loop of filter_integrations over the discovered names
RECURSIVE FilterLoop(_, _, _, _)
FilterLoop(d, integrations, criteria, filtered) ==
    IF integrations = <<>> THEN [filtered |-> filtered, raised |-> NoExc]
    ELSE LET r == FilterOne(d, Head(integrations), criteria)
         IN  IF r = "raise" THEN [filtered |-> <<>>, raised |-> NotADate]
             ELSE FilterLoop(d, Tail(integrations), criteria,
                             IF r = "keep" THEN Append(filtered, Head(integrations))
                             ELSE filtered)

\* the keys of the criteria dict in the order json.dumps(sort_keys=True)
\* writes them
SortedKeys ==
    <<"business_contact", "description_contains", "last_updated_after",
      "last_updated_before", "name", "partial_name", "tags", "technical_contact">>

\* json.dumps(criteria, sort_keys=True): the key-value pairs in key order
CriteriaJson(criteria) ==
    [i \in 1..Len(SortedKeys) |-> <<SortedKeys[i], criteria[SortedKeys[i]]>>]

\* hashlib.sha256(text).hexdigest()[:8], taken as one-to-one on the texts in use
Sha256Hex8(text) == [sha256 |-> text]

CriteriaHash(criteria) == Sha256Hex8(CriteriaJson(criteria))

\* a filter whose hash is taken over the criteria and the names kept
FilterIntegrationsHashOfResult(d, order, criteria) ==
    LET r == FilterLoop(d, order, criteria, <<>>)
    IN  [filtered |-> r.filtered, raised |-> r.raised,
         criteria_hash |-> Sha256Hex8(CriteriaJson(criteria) \o <<r.filtered>>)]

\* filter_integrations: the names kept, in discovery order, and the criteria
\* hash, or the exception
FilterIntegrations(d, order, criteria) ==
    LET r == FilterLoop(d, order, criteria, <<>>)
    IN  [filtered |-> r.filtered, raised |-> r.raised,
         criteria_hash |-> CriteriaHash(criteria)]

(***************************************************************************)
(* State.                                                                  *)
(***************************************************************************)
VARIABLES
    disk,        \* the plugin directories: Names -> Profiles
    telemetry,   \* the rows of the telemetry table, in insertion order
    support,     \* backoff_state of the runner's SupportManager
    emitted,     \* the notifications logged so far, each with its process
    now,         \* the wall clock
    cache,       \* the validation cache file
    last,        \* the last completed call: what it did and how it ended
    ops,         \* number of direct calls made
    batch        \* the run_filtered invocation in progress or finished

vars == <<disk, telemetry, support, emitted, now, cache, last, ops, batch>>

Tag(out, proc) == [i \in 1..Len(out) |-> [key |-> out[i].key, msg |-> out[i].msg,
                                          time |-> out[i].time, proc |-> proc]]

NoCall == [op |-> "none", name |-> None, trace |-> <<>>, rows |-> <<>>,
           out |-> <<>>, raised |-> NoExc, ret |-> FALSE, returned |-> FALSE,
           fresh |-> TRUE, at |-> T0, cacheBefore |-> EmptyCache, saved |-> FALSE]

\* the record of one plugin run: what it did (trace), the rows and the
\* notifications it added, the exception that left it; fresh: the notifier
\* it used had never emitted; at, cacheBefore: the clock and the cache file
\* when it was called; saved: a write of the cache file by it would succeed
Call(op, n, r, fresh) ==
    [op |-> op, name |-> n, trace |-> r.trace, rows |-> r.rows, out |-> r.out,
     raised |-> r.raised, ret |-> FALSE, returned |-> r.raised = NoExc,
     fresh |-> fresh, at |-> now, cacheBefore |-> cache, saved |-> FALSE]

NoBatch == [pc |-> "idle", mode |-> "none", selection |-> <<>>, idx |-> 1,
            pending |-> {}, runs |-> <<>>, captured |-> <<>>, raised |-> NoExc,
            criteria |-> NoCriteria, criteria_hash |-> None]

\* the state after construction of a BatchRunner
Init ==
    /\ disk \in BatchDisks
    /\ telemetry = <<>>
    /\ support = EmptyBackoff
    /\ emitted = <<>>
    /\ now = T0
    /\ cache = EmptyCache
    /\ last = NoCall
    /\ ops = 0
    /\ batch = NoBatch

\* a direct call of BatchRunner.run_integration(n)
RunIntegrationCall(n) ==
    /\ ops < MaxOps
    /\ batch.pc = "idle"
    /\ \E in \in RunInputs :
          LET r == RunIntegration(disk, n, support, now, in)
          IN  /\ telemetry' = telemetry \o r.rows
              /\ support' = r.st
              /\ emitted' = emitted \o Tag(r.out, "main")
              /\ now' = r.now
              /\ last' = Call("run_integration", n, r, support = EmptyBackoff)
    /\ ops' = ops + 1
    /\ UNCHANGED <<disk, cache, batch>>

\* a direct call of _run_integration(n, ...), as a pool worker does
ProcRunIntegrationCall(n) ==
    /\ ops < MaxOps
    /\ batch.pc = "idle"
    /\ \E in \in RunInputs :
          LET r == ProcRunIntegration(disk, n, now, in)
          IN  /\ telemetry' = telemetry \o r.rows
              /\ emitted' = emitted \o Tag(r.out, n)
              /\ now' = r.now
              /\ last' = Call("_run_integration", n, r, TRUE)
    /\ ops' = ops + 1
    /\ UNCHANGED <<disk, support, cache, batch>>

\* a direct call of BatchRunner.validate_integration(n)
ValidateIntegrationCall(n) ==
    /\ ops < MaxOps
    /\ batch.pc = "idle"
    /\ \E saveFails \in BOOLEAN :
          LET v == ValidateIntegration(disk, n, cache, now, saveFails)
          IN  /\ cache' = v.cache
              /\ last' = [op |-> "validate_integration", name |-> n,
                          trace |-> v.trace, rows |-> <<>>, out |-> <<>>,
                          raised |-> v.raised, ret |-> v.ret,
                          returned |-> v.returned, fresh |-> support = EmptyBackoff,
                          at |-> now, cacheBefore |-> cache,
                          saved |-> ~saveFails]
    /\ ops' = ops + 1
    /\ UNCHANGED <<disk, telemetry, support, emitted, now, batch>>

(***************************************************************************)
(* run_filtered: one batch.                                                *)
(***************************************************************************)
Modes == {"none", "asyncio", "multiprocessing"}

Range(seq) == {seq[i] : i \in 1..Len(seq)}

\* what a batch remembers of one plugin run; executed: it was constructed
Run(n, r) ==
    [name |-> n, raised |-> r.raised, rows |-> r.rows,
     executed |-> \E i \in 1..Len(r.trace) : r.trace[i].stage = "construct"]

\* a run_filtered that runs every discovered plugin when nothing matches
RunFilteredHashFallback(criteria, criteria_hash, mode) ==
    /\ batch.pc = "idle"
    /\ ops = 0
    /\ \E order \in Orders(Discovered(disk)) :
          LET f == FilterIntegrations(disk, order, criteria)
              integrations == IF f.filtered = <<>> THEN order ELSE f.filtered
          IN  batch' = [pc |-> IF f.raised # NoExc THEN "aborted"
                               ELSE IF integrations = <<>> THEN "done" ELSE "running",
                        mode |-> mode, selection |-> integrations, idx |-> 1,
                        pending |-> IF mode = "multiprocessing"
                                    THEN Range(integrations) ELSE {},
                        runs |-> <<>>, captured |-> <<>>, raised |-> f.raised,
                        criteria |-> criteria, criteria_hash |-> criteria_hash]
    /\ UNCHANGED <<disk, telemetry, support, emitted, now, cache, last, ops>>

\* a run_filtered that, given a criteria hash and no criterion, looks for
\* the plugins of an earlier selection and finds none
RunFilteredHashResolved(criteria, criteria_hash, mode) ==
    /\ batch.pc = "idle"
    /\ ops = 0
    /\ \E order \in Orders(Discovered(disk)) :
          LET f == FilterIntegrations(disk, order, criteria)
              integrations == IF criteria_hash # None /\ criteria = NoCriteria
                              THEN <<>> ELSE f.filtered
          IN  batch' = [pc |-> IF f.raised # NoExc THEN "aborted"
                               ELSE IF integrations = <<>> THEN "done" ELSE "running",
                        mode |-> mode, selection |-> integrations, idx |-> 1,
                        pending |-> IF mode = "multiprocessing"
                                    THEN Range(integrations) ELSE {},
                        runs |-> <<>>, captured |-> <<>>, raised |-> f.raised,
                        criteria |-> criteria, criteria_hash |-> criteria_hash]
    /\ UNCHANGED <<disk, telemetry, support, emitted, now, cache, last, ops>>

\* run_filtered up to the dispatch: log the criteria hash if one is given,
\* discover, filter by the eight criteria, return if nothing matches
RunFilteredHash(criteria, criteria_hash, mode) ==
    /\ batch.pc = "idle"
    /\ ops = 0
    /\ \E order \in Orders(Discovered(disk)) :
          LET f == FilterIntegrations(disk, order, criteria)
              integrations == f.filtered
          IN  batch' = [pc |-> IF f.raised # NoExc THEN "aborted"
                               ELSE IF integrations = <<>> THEN "done" ELSE "running",
                        mode |-> mode, selection |-> integrations, idx |-> 1,
                        pending |-> IF mode = "multiprocessing"
                                    THEN Range(integrations) ELSE {},
                        runs |-> <<>>, captured |-> <<>>, raised |-> f.raised,
                        criteria |-> criteria, criteria_hash |-> criteria_hash]
    /\ UNCHANGED <<disk, telemetry, support, emitted, now, cache, last, ops>>

\* run_filtered without a criteria hash
RunFiltered(criteria, mode) == RunFilteredHash(criteria, None, mode)

\* a sequential loop that runs a plugin once more when its run has failed
SeqStepRetrying ==
    /\ batch.pc = "running"
    /\ batch.mode = "none"
    /\ \E in \in BatchInputs :
          LET n == batch.selection[batch.idx]
              r == RunIntegration(disk, n, support, now, in)
              again == /\ \E i \in 1..Len(r.rows) : r.rows[i].status = "failed"
                       /\ \A i \in 1..Len(batch.runs) : batch.runs[i].name # n
          IN  /\ telemetry' = telemetry \o r.rows
              /\ support' = r.st
              /\ emitted' = emitted \o Tag(r.out, "main")
              /\ now' = r.now
              /\ last' = Call("run_integration", n, r, support = EmptyBackoff)
              /\ batch' = [batch EXCEPT
                    !.runs = @ \o <<Run(n, r)>>,
                    !.idx = IF again THEN @ ELSE @ + 1,
                    !.raised = r.raised,
                    !.pc = IF r.raised # NoExc THEN "aborted"
                           ELSE IF again THEN "running"
                           ELSE IF batch.idx = Len(batch.selection) THEN "done"
                           ELSE "running"]
    /\ UNCHANGED <<disk, cache, ops>>

\* one iteration of the sequential loop; an exception leaves run_filtered
SeqStep ==
    /\ batch.pc = "running"
    /\ batch.mode = "none"
    /\ \E in \in BatchInputs :
          LET n == batch.selection[batch.idx]
              r == RunIntegration(disk, n, support, now, in)
          IN  /\ telemetry' = telemetry \o r.rows
              /\ support' = r.st
              /\ emitted' = emitted \o Tag(r.out, "main")
              /\ now' = r.now
              /\ last' = Call("run_integration", n, r, support = EmptyBackoff)
              /\ batch' = [batch EXCEPT
                    !.runs = @ \o <<Run(n, r)>>,
                    !.idx = @ + 1,
                    !.raised = r.raised,
                    !.pc = IF r.raised # NoExc THEN "aborted"
                           ELSE IF batch.idx = Len(batch.selection) THEN "done"
                           ELSE "running"]
    /\ UNCHANGED <<disk, cache, ops>>

\* a gather that lets the exception of a task leave run_filtered
AsyncStepPropagates ==
    /\ batch.pc = "running"
    /\ batch.mode = "asyncio"
    /\ \E in \in BatchInputs :
          LET n == batch.selection[batch.idx]
              r == RunIntegration(disk, n, support, now, in)
          IN  /\ telemetry' = telemetry \o r.rows
              /\ support' = r.st
              /\ emitted' = emitted \o Tag(r.out, "main")
              /\ now' = r.now
              /\ last' = Call("run_integration_async", n, r, support = EmptyBackoff)
              /\ batch' = [batch EXCEPT
                    !.runs = @ \o <<Run(n, r)>>,
                    !.idx = @ + 1,
                    !.raised = r.raised,
                    !.pc = IF r.raised # NoExc THEN "aborted"
                           ELSE IF batch.idx = Len(batch.selection) THEN "done"
                           ELSE "running"]
    /\ UNCHANGED <<disk, cache, ops>>

\* one task of asyncio.gather(..., return_exceptions=True): a task has no
\* suspension point, so it runs to its end once started; its exception is
\* kept as its result
AsyncStep ==
    /\ batch.pc = "running"
    /\ batch.mode = "asyncio"
    /\ \E in \in BatchInputs :
          LET n == batch.selection[batch.idx]
              r == RunIntegration(disk, n, support, now, in)
          IN  /\ telemetry' = telemetry \o r.rows
              /\ support' = r.st
              /\ emitted' = emitted \o Tag(r.out, "main")
              /\ now' = r.now
              /\ last' = Call("run_integration_async", n, r, support = EmptyBackoff)
              /\ batch' = [batch EXCEPT
                    !.runs = @ \o <<Run(n, r)>>,
                    !.idx = @ + 1,
                    !.captured = @ \o (IF r.raised # NoExc THEN <<r.raised>> ELSE <<>>),
                    !.pc = IF batch.idx = Len(batch.selection) THEN "done"
                           ELSE "running"]
    /\ UNCHANGED <<disk, cache, ops>>

\* one worker of pool.map; map returns when every worker has finished and
\* re-raises a worker's exception
ProcStep(n) ==
    /\ batch.pc = "running"
    /\ batch.mode = "multiprocessing"
    /\ n \in batch.pending
    /\ \E in \in BatchInputs :
          LET r == ProcRunIntegration(disk, n, now, in)
              captured == batch.captured \o (IF r.raised # NoExc THEN <<r.raised>> ELSE <<>>)
          IN  /\ telemetry' = telemetry \o r.rows
              /\ emitted' = emitted \o Tag(r.out, n)
              /\ now' = r.now
              /\ last' = Call("_run_integration", n, r, TRUE)
              /\ batch' = [batch EXCEPT
                    !.runs = @ \o <<Run(n, r)>>,
                    !.pending = @ \ {n},
                    !.captured = captured,
                    !.raised = IF batch.pending = {n} /\ captured # <<>>
                               THEN captured[1] ELSE NoExc,
                    !.pc = IF batch.pending # {n} THEN "running"
                           ELSE IF captured # <<>> THEN "aborted" ELSE "done"]
    /\ UNCHANGED <<disk, support, cache, ops>>

Criteria == {NoCriteria, [NoCriteria EXCEPT !.name = "p1"]}

\* the plugins single calls are made on
CallNames == {"hello", "p1"}

NextCalls ==
    \/ \E n \in CallNames : RunIntegrationCall(n)
    \/ \E n \in CallNames : ProcRunIntegrationCall(n)
    \/ \E n \in CallNames : ValidateIntegrationCall(n)

NextBatch ==
    \/ \E c \in Criteria, m \in Modes : RunFiltered(c, m)
    \/ SeqStep
    \/ AsyncStep
    \/ \E n \in Names : ProcStep(n)

Next == NextCalls \/ NextBatch

Spec == Init /\ [][Next]_vars

(***************************************************************************)
(* Calls and batches over plugins whose fetch_data is a coroutine function.*)
(***************************************************************************)
AsyncDisks ==
    {d \in [Names -> Profiles \cup {WeatherProfile}] :
        /\ d["hello"] = HelloProfile
        /\ d["p1"] = WeatherProfile
        /\ d["p2"] \in {StubProfile("none"), StubProfile("fetch"), WeatherProfile}}

InitAsync ==
    /\ disk \in AsyncDisks
    /\ telemetry = <<>>
    /\ support = EmptyBackoff
    /\ emitted = <<>>
    /\ now = T0
    /\ cache = EmptyCache
    /\ last = NoCall
    /\ ops = 0
    /\ batch = NoBatch

SpecAsync == InitAsync /\ [][Next]_vars

(***************************************************************************)
(* Single calls on a runner that has been in use: its notifier may have    *)
(* emitted shortly before, the cache file may hold an entry for "p1".      *)
(***************************************************************************)
CallSupports ==
    {EmptyBackoff} \cup
    {[k \in {NotifyKey(None)} |-> <<T0 - age, 0>>] : age \in {0, 5, InitialDelay}}

CallCaches ==
    {EmptyCache} \cup
    {CachePut(EmptyCache, "p1", CacheEntry(v, T0 - age)) :
        v \in BOOLEAN, age \in {5, CacheTTL}}

InitCalls ==
    /\ disk \in CallDisks
    /\ \/ support \in CallSupports /\ cache = EmptyCache
       \/ support = EmptyBackoff /\ cache \in CallCaches
    /\ telemetry = <<>>
    /\ emitted = <<>>
    /\ now = T0
    /\ last = NoCall
    /\ ops = 0
    /\ batch = NoBatch

SpecCalls == InitCalls /\ [][NextCalls]_vars

(***************************************************************************)
(* One batch on a freshly constructed runner.                              *)
(***************************************************************************)
SpecBatch == Init /\ [][NextBatch]_vars

(***************************************************************************)
(* Validation across processes: every command-line invocation builds a new *)
(* BatchRunner, while validation_cache.json stays on disk.  The cache file *)
(* may have been written by hand or by another program.                    *)
(***************************************************************************)
MaxSlack == 10

RestartDelays == {5, CacheTTL}

EntryAges == {5, CacheTTL - 5, CacheTTL}

ValidateProfiles ==
    {StubProfile("none"), StubProfile("construct"),
     [cfg |-> "disabled", impl |-> "stub", failAt |-> "none"],
     [cfg |-> "enabled", impl |-> "absent", failAt |-> "none"],
     [cfg |-> "enabled", impl |-> "import_crash", failAt |-> "none"],
     [cfg |-> "missing", impl |-> "stub", failAt |-> "none"]}

ValidateDisks ==
    {d \in [Names -> Profiles] :
        /\ d["hello"] = HelloProfile
        /\ d["p1"] \in ValidateProfiles
        /\ d["p2"] = StubProfile("none")}

ValidateCaches ==
    {EmptyCache}
    \cup {CachePut(EmptyCache, "p1", [valid |-> v, timestamp |-> T0 - age, form |-> f]) :
             v \in BOOLEAN, age \in EntryAges, f \in {"ok", "no_valid"}}
    \cup {CachePut(EmptyCache, "p1", [valid |-> v, timestamp |-> 0, form |-> f]) :
             v \in BOOLEAN, f \in {"no_timestamp", "bad_timestamp", "null_timestamp"}}

InitValidate ==
    /\ disk \in ValidateDisks
    /\ cache \in ValidateCaches
    /\ support = EmptyBackoff
    /\ telemetry = <<>>
    /\ emitted = <<>>
    /\ now = T0
    /\ last = NoCall
    /\ ops = 0
    /\ batch = NoBatch

\* the clock values looked at: within MaxSlack after the first process
\* started, or within MaxSlack after the TTL has passed since then
InWindow(e) == e <= MaxSlack \/ (e >= CacheTTL /\ e <= CacheTTL + MaxSlack)

\* the process ends and, d ticks later, a new one constructs its BatchRunner
NewProcess(d) ==
    /\ batch.pc = "idle"
    /\ InWindow(now + d - T0)
    /\ now' = now + d
    /\ ops' = 0
    /\ support' = EmptyBackoff
    /\ UNCHANGED <<disk, telemetry, emitted, cache, last, batch>>

NextValidate ==
    \/ \E n \in CallNames : ValidateIntegrationCall(n)
    \/ \E d \in RestartDelays : NewProcess(d)

SpecValidate == InitValidate /\ [][NextValidate]_vars

(***************************************************************************)
(* Two processes validating at once.  Each has its own BatchRunner and     *)
(* both use the same validation_cache.json; validate_integration reads the *)
(* whole document when it starts and writes the whole document back when   *)
(* it has its verdict.  batch.procs keeps, for each process, where it is   *)
(* and the document it read.                                               *)
(***************************************************************************)
Racers == {"p1", "p2"}

\* a save that keeps the entries another writer has put in the file
SaveValidationCacheMerging(file, doc) ==
    [k \in (DOMAIN file) \cup (DOMAIN doc) |-> IF k \in DOMAIN doc THEN doc[k] ELSE file[k]]

\* save_validation_cache: open("w") truncates the file and json.dump
\* writes the caller's document
SaveValidationCache(file, doc) == doc

RaceProc(pc, doc, wrote) == [pc |-> pc, doc |-> doc, wrote |-> wrote]

InitRace ==
    /\ disk \in ValidateDisks
    /\ cache \in ValidateCaches
    /\ support = EmptyBackoff
    /\ telemetry = <<>>
    /\ emitted = <<>>
    /\ now = T0
    /\ last = NoCall
    /\ ops = 0
    /\ batch = [pc |-> "race", procs |-> [n \in Racers |-> RaceProc("start", EmptyCache, FALSE)]]

\* the process validating n runs load_validation_cache
LoadValidationCacheStep(n) ==
    /\ batch.procs[n].pc = "start"
    /\ batch' = [batch EXCEPT !.procs[n] = RaceProc("loaded", cache, FALSE)]
    /\ UNCHANGED <<disk, telemetry, support, emitted, now, cache, last, ops>>

\* the process validating n runs the rest of validate_integration on the
\* document it read: a cached verdict or an exception ends it without a
\* write, otherwise the document with n's entry is saved
SaveValidationCacheStep(n) ==
    /\ batch.procs[n].pc = "loaded"
    /\ LET r == ValidateIntegration(disk, n, batch.procs[n].doc, now, FALSE)
           writes == r.returned /\ ~r.hit
       IN  /\ cache' = IF writes THEN SaveValidationCache(cache, r.cache) ELSE cache
           /\ batch' = [batch EXCEPT !.procs[n] = RaceProc("done", r.cache, writes)]
           /\ last' = [op |-> "validate_integration", name |-> n,
                       trace |-> r.trace, rows |-> <<>>, out |-> <<>>,
                       raised |-> r.raised, ret |-> r.ret,
                       returned |-> r.returned, fresh |-> TRUE,
                       at |-> now, cacheBefore |-> cache, saved |-> writes]
    /\ UNCHANGED <<disk, telemetry, support, emitted, now, ops>>

NextRace ==
    \/ \E n \in Racers : LoadValidationCacheStep(n)
    \/ \E n \in Racers : SaveValidationCacheStep(n)

SpecRace == InitRace /\ [][NextRace]_vars

(***************************************************************************)
(* The notifier on its own: emits on the channels of one SupportManager,   *)
(* with time passing between them.                                         *)
(***************************************************************************)
MaxEmits == 3
MaxRetry == 7
MaxElapsed == 11

\* backoff_state is a public attribute: a channel may be given any state
\* <<last_time, retry_count>>; here one last used just inside or just
\* outside its window
NotifySupports ==
    {EmptyBackoff}
    \cup {[k \in {"notify_default"} |-> <<T0 - (Delay(rc) - in), rc>>] :
             in \in {0, 1}, rc \in 0..MaxRetry}

InitNotify ==
    /\ disk \in {d \in CallDisks : d["p1"] = StubProfile("none")}
    /\ support = EmptyBackoff
    /\ cache = EmptyCache
    /\ telemetry = <<>>
    /\ emitted = <<>>
    /\ now = T0
    /\ last = NoCall
    /\ ops = 0
    /\ batch = NoBatch

\* the record of one emit: name is the channel key, before the channel's
\* state when the call was made, ret whether it reports an emission, tries
\* the number of attempts the decorator made, ended the time of the last one
Emit(op, key, r) ==
    [op |-> op, name |-> key, trace |-> <<>>, rows |-> <<>>, out |-> r.out,
     raised |-> NoExc, ret |-> r.emitted, returned |-> TRUE,
     fresh |-> key \notin DOMAIN support, at |-> now, cacheBefore |-> cache,
     saved |-> FALSE, before |-> BackoffGet(support, key), tries |-> r.tries,
     ended |-> r.time]

\* one call of log_with_backoff(key, message), direct or through notify or
\* report_issue
EmitCall(op, key, message) ==
    /\ ops < MaxEmits
    /\ \E sl \in Sleeps :
          LET r == LogWithBackoff(support, key, message, now, sl, 1)
          IN  /\ support' = r.st
              /\ emitted' = emitted \o Tag(r.out, "main")
              /\ now' = r.now
              /\ last' = Emit(op, key, r)
    /\ ops' = ops + 1
    /\ UNCHANGED <<disk, telemetry, cache, batch>>

\* SupportManager.notify(message, integration_name)
NotifyCall(integration_name) ==
    EmitCall("notify", NotifyKey(integration_name), "Test notification")

\* SupportManager.report_issue(issue_type, message, integration_name)
ReportIssueCall(integration_name) ==
    EmitCall("report_issue", "issue_" \o integration_name,
             "Issue in " \o integration_name \o ": Bug: Test error")

\* SupportManager.log_with_backoff(key, message)
LogWithBackoffCall(key) == EmitCall("log_with_backoff", key, "Test error message")

\* time passes between two calls
PassTime(d) ==
    /\ now + d <= T0 + MaxElapsed
    /\ now' = now + d
    /\ UNCHANGED <<disk, telemetry, support, emitted, cache, last, ops, batch>>

NextNotify ==
    \/ \E n \in {None, "p1"} : NotifyCall(n)
    \/ ReportIssueCall("p1")
    \/ LogWithBackoffCall("notify_default")
    \/ \E d \in {5, 6} : PassTime(d)

SpecNotify == InitNotify /\ [][NextNotify]_vars

\* the same calls on a notifier whose default channel was given a state
InitWindow ==
    /\ disk \in {d \in CallDisks : d["p1"] = StubProfile("none")}
    /\ support \in NotifySupports
    /\ cache = EmptyCache
    /\ telemetry = <<>>
    /\ emitted = <<>>
    /\ now = T0
    /\ last = NoCall
    /\ ops = 0
    /\ batch = NoBatch

SpecWindow == InitWindow /\ [][NextNotify]_vars

(***************************************************************************)
(* filter_integrations on its own: one call on a plugin tree whose         *)
(* metadata.yaml files vary.  "hello" has no metadata.yaml.                *)
(***************************************************************************)
\* a metadata.yaml with the keys that are present
MakeMeta(o) == [k \in {key \in DOMAIN o : o[key].has} |-> o[k].v]

Present(v) == [has |-> TRUE, v |-> v]
Absent == [has |-> FALSE, v |-> None]
AbsentTags == [has |-> FALSE, v |-> {}]
AbsentDate == [has |-> FALSE, v |-> NoDate]

WithMeta(profile, m) ==
    [k \in DOMAIN profile \cup {"meta"} |-> IF k = "meta" THEN m ELSE profile[k]]

FilterMetas ==
    {MakeMeta([tags |-> t, business_contact |-> c.b, technical_contact |-> c.t,
               description |-> c.d, last_updated |-> lu]) :
        t \in {AbsentTags, Present({"a"}), Present({"a", "b"})},
        c \in {[b |-> Absent, t |-> Absent, d |-> Absent],
               [b |-> Present("bc1"), t |-> Present("tc1"), d |-> Present("Sales Sync")]},
        lu \in {AbsentDate, Present(Iso(1)), Present(Iso(3)), Present(NA),
                Present(Garbage), Present(YamlDate(1))}}

FilterDisks ==
    {[n \in Names |->
        CASE n = "p1" -> WithMeta(StubProfile("none"), m)
          [] n = "p2" -> WithMeta(StubProfile("none"),
                                  MakeMeta([tags |-> Present({"a"}),
                                            business_contact |-> Present("bc1"),
                                            last_updated |-> Present(Iso(1))]))
          [] OTHER -> StubProfile("none")] : m \in FilterMetas}

FilterCriteria ==
    {[name |-> n, partial_name |-> pn, tags |-> t, business_contact |-> b,
      technical_contact |-> tc, last_updated_before |-> lb,
      last_updated_after |-> la, description_contains |-> dc] :
        n \in {None, "p1"}, pn \in {None, "p"}, t \in {<<>>, <<"a">>, <<"a", "b">>},
        b \in {None, "bc1"}, tc \in {None, "tc1"}, lb \in {NoDate, Iso(2)},
        la \in {NoDate, Iso(2)}, dc \in {None, "sales"}}

InitFilter ==
    /\ disk \in FilterDisks
    /\ support = EmptyBackoff
    /\ cache = EmptyCache
    /\ telemetry = <<>>
    /\ emitted = <<>>
    /\ now = T0
    /\ last = NoCall
    /\ ops = 0
    /\ batch = NoBatch

\* a call of filter_integrations; the directory listing comes in any order
FilterCall(criteria) ==
    /\ \E order \in Orders(Discovered(disk)) :
          LET f == FilterIntegrations(disk, order, criteria)
          IN  last' = [op |-> "filter_integrations", name |-> None, trace |-> <<>>,
                       rows |-> <<>>, out |-> <<>>, raised |-> f.raised,
                       ret |-> FALSE, returned |-> f.raised = NoExc,
                       fresh |-> TRUE, at |-> now, cacheBefore |-> cache,
                       saved |-> FALSE, criteria |-> criteria,
                       filtered |-> f.filtered, criteria_hash |-> f.criteria_hash,
                       prior |-> IF last.op = "filter_integrations"
                                 THEN <<[criteria |-> last.criteria,
                                         returned |-> last.returned,
                                         filtered |-> last.filtered,
                                         criteria_hash |-> last.criteria_hash]>>
                                 ELSE <<>>]
    /\ ops' = ops + 1
    /\ UNCHANGED <<disk, telemetry, support, emitted, now, cache, batch>>

\* the one call of a process
FilterIntegrationsCall(criteria) ==
    /\ ops = 0
    /\ FilterCall(criteria)

NextFilter == \E criteria \in FilterCriteria : FilterIntegrationsCall(criteria)

SpecFilter == InitFilter /\ [][NextFilter]_vars

(***************************************************************************)
(* filter_integrations called again after the plugin tree has changed:     *)
(* metadata edited, a plugin removed or added.                             *)
(***************************************************************************)
MaxFilters == 2

RemovedProfile == [cfg |-> "missing", impl |-> "absent", failAt |-> "none"]

RefilterDisks ==
    LET base == {d \in FilterDisks :
                    LET m == LoadMetadata(d, "p1")
                    IN  /\ "business_contact" \in DOMAIN m
                        /\ DictGet(m, "tags", {}) = {"a", "b"}
                        /\ DictGet(m, "last_updated", NoDate) \in {NoDate, NA}}
    IN  base \cup {[d EXCEPT !["p2"] = RemovedProfile] : d \in base}

RefilterCriteria ==
    {NoCriteria,
     [NoCriteria EXCEPT !.name = "p1"],
     [NoCriteria EXCEPT !.tags = <<"a">>],
     [NoCriteria EXCEPT !.last_updated_before = Iso(2)],
     [NoCriteria EXCEPT !.partial_name = "p", !.tags = <<"a", "b">>],
     [NoCriteria EXCEPT !.partial_name = "p", !.tags = <<"b", "a">>]}

InitRefilter ==
    /\ disk \in RefilterDisks
    /\ support = EmptyBackoff
    /\ cache = EmptyCache
    /\ telemetry = <<>>
    /\ emitted = <<>>
    /\ now = T0
    /\ last = NoCall
    /\ ops = 0
    /\ batch = NoBatch

\* a later call on the same plugin directory
FilterAgain(criteria) ==
    /\ ops > 0
    /\ ops < MaxFilters
    /\ FilterCall(criteria)

\* the plugin tree is edited between two calls
ChangePlugins(d) ==
    /\ ops > 0
    /\ ops < MaxFilters
    /\ d # disk
    /\ disk' = d
    /\ UNCHANGED <<telemetry, support, emitted, now, cache, last, ops, batch>>

NextRefilter ==
    \/ \E criteria \in RefilterCriteria : FilterIntegrationsCall(criteria)
    \/ \E criteria \in RefilterCriteria : FilterAgain(criteria)
    \/ \E d \in RefilterDisks : ChangePlugins(d)

SpecRefilter == InitRefilter /\ [][NextRefilter]_vars

(***************************************************************************)
(* One run_filtered with any of its arguments: criteria, a criteria hash   *)
(* typed by the operator, the parallel mode.                               *)
(***************************************************************************)
SelectCriteria == RefilterCriteria \cup {[NoCriteria EXCEPT !.partial_name = "zz"]}

CriteriaHashes == {None, "1a2b3c4d"}

NextSelect ==
    \/ \E c \in SelectCriteria, h \in CriteriaHashes, m \in Modes : RunFilteredHash(c, h, m)
    \/ SeqStep
    \/ AsyncStep
    \/ \E n \in Names : ProcStep(n)

SpecSelect == InitRefilter /\ [][NextSelect]_vars

(***************************************************************************)
(* The metrics store on its own: a telemetry.db that earlier runs have     *)
(* written to, in time order, and calls of log_run, generate_report,       *)
(* get_last_updated and the construction of another TelemetryManager.      *)
(***************************************************************************)
MaxStoreOps == 2

December == [year |-> 2024, month |-> 12]
January == [year |-> 2025, month |-> 1]

Statuses == {"success", "failed"}

StoredRow(n, status, duration, t) ==
    LogRunRow(n, status, duration, t, IF status = "failed" THEN ErrMsg("fetch") ELSE None)

StoreTables ==
    {<<>>} \cup
    {<<StoredRow("p1", s1, 10, t1), StoredRow("p1", s2, 20, t2), StoredRow(n3, s3, 30, t3)>> :
        s1 \in Statuses, s2 \in Statuses, s3 \in Statuses, n3 \in {"p1", "p2"},
        t1 \in {MonthStart(December) - 1, MonthStart(December)},
        t2 \in {MonthStart(December), MonthStart(January) - 1},
        t3 \in {MonthStart(January) - 1, MonthStart(January)}}

Periods == {"2024-11", "2024-12", "2025-01", "2025-1", "2024-13", "2024-12-01", "december"}

InitStore ==
    /\ disk \in {d \in RefilterDisks : Discovered(d) = Names
                                       /\ "last_updated" \in DOMAIN LoadMetadata(d, "p1")}
    /\ telemetry \in StoreTables
    /\ support = EmptyBackoff
    /\ cache = EmptyCache
    /\ emitted = <<>>
    /\ now = MonthStart(January) + T0
    /\ last = NoCall
    /\ ops = 0
    /\ batch = NoBatch

\* the record of one call on the store: added, the rows it inserted;
\* rowsBefore, the table when it was called; r, what a report call did
StoreCall(op, n, added, raised, r) ==
    [op |-> op, name |-> n, trace |-> <<>>, rows |-> added, out |-> <<>>,
     raised |-> raised, ret |-> FALSE, returned |-> raised = NoExc,
     fresh |-> TRUE, at |-> now, cacheBefore |-> cache, saved |-> FALSE,
     rowsBefore |-> telemetry, period |-> r.period, wrote |-> r.wrote,
     file |-> r.file, report |-> r.report, value |-> NA]

NoReport == [period |-> None, wrote |-> FALSE, file |-> None, report |-> {}]

\* TelemetryManager.log_run called directly
LogRunCall(n, status, duration, fails) ==
    /\ ops < MaxStoreOps
    /\ LET w == LogRun(fails, n, status, duration, now,
                       IF status = "failed" THEN ErrMsg("fetch") ELSE None)
       IN  /\ telemetry' = telemetry \o w.rows
           /\ last' = StoreCall("log_run", n, w.rows, w.exc, NoReport)
    /\ ops' = ops + 1
    /\ UNCHANGED <<disk, support, emitted, now, cache, batch>>

\* BatchRunner.generate_telemetry_report
GenerateReportCall(period) ==
    /\ ops < MaxStoreOps
    /\ LET g == GenerateReport(telemetry, period)
       IN  /\ telemetry' = g.rows
           /\ last' = StoreCall("generate_report", None, <<>>, NoExc,
                                [period |-> period, wrote |-> g.wrote,
                                 file |-> g.file, report |-> g.report])
    /\ ops' = ops + 1
    /\ UNCHANGED <<disk, support, emitted, now, cache, batch>>

\* BatchRunner.get_last_updated: the SQLQueryManager is entered first
GetLastUpdatedCall(n) ==
    /\ ops < MaxStoreOps
    /\ telemetry' = SqlEnter(telemetry).rows
    /\ last' = [StoreCall("get_last_updated", n, <<>>, NoExc, NoReport)
                  EXCEPT !.ret = GetLastUpdatedStore(telemetry, disk, n).kind # "na",
                         !.value = GetLastUpdatedStore(telemetry, disk, n)]
    /\ ops' = ops + 1
    /\ UNCHANGED <<disk, support, emitted, now, cache, batch>>

\* another TelemetryManager is constructed on the same file
InitializeDbCall ==
    /\ ops < MaxStoreOps
    /\ telemetry' = InitializeDb(telemetry)
    /\ last' = StoreCall("_initialize_db", None, <<>>, NoExc, NoReport)
    /\ ops' = ops + 1
    /\ UNCHANGED <<disk, support, emitted, now, cache, batch>>

NextStore ==
    \/ \E status \in Statuses, fails \in BOOLEAN : LogRunCall("p1", status, 10, fails)
    \/ \E period \in Periods : GenerateReportCall(period)
    \/ GetLastUpdatedCall("p1")
    \/ InitializeDbCall

SpecStore == InitStore /\ [][NextStore]_vars

(***************************************************************************)
(* Properties.                                                             *)
(***************************************************************************)
RunOps == {"run_integration", "run_integration_async", "_run_integration"}
PluginStages == {"construct", "fetch", "transform", "deliver"}

Events(trace, stages) == {i \in 1..Len(trace) : trace[i].stage \in stages}

\* a stage of the plugin raised during the last call
StageRaised == \E i \in Events(last.trace, PluginStages) : last.trace[i].out = "raise"

\* the message of the exception the stage raised
RaisedMsg ==
    ErrMsg(last.trace[CHOOSE i \in Events(last.trace, PluginStages) :
                          last.trace[i].out = "raise"].stage)

\* log_run raised during the last call
LogRunRaised == \E i \in Events(last.trace, {"log_run"}) : last.trace[i].out = "raise"

Resolvable(n) == disk[n].impl \in {"hello", "stub"}

\* C1: in run_integration of an enabled, loadable plugin, an exception of
\* construct, fetch, transform or deliver never leaves the call, and the call
\* records exactly one row, of status failed, whose error is the exception's
\* message.
C1_StageExceptionRecorded ==
    (last.op \in {"run_integration", "run_integration_async"} /\ StageRaised) =>
        /\ last.raised = NoExc
        /\ Len(last.rows) = 1
        /\ last.rows[1].status = "failed"
        /\ last.rows[1].error = RaisedMsg

\* C2: a sequential or cooperative batch whose plugin stages all return or
\* raise ends normally, and by then every selected plugin that is enabled and
\* loadable has been executed and has a row recorded.
C2_BatchRecordsEveryPlugin ==
    (batch.mode \in {"none", "asyncio"} /\ batch.pc \in {"done", "aborted"}) =>
        /\ batch.pc = "done"
        /\ \A i \in 1..Len(batch.selection) :
              LET n == batch.selection[i]
              IN  (disk[n].cfg = "enabled" /\ Resolvable(n)) =>
                     \E k \in 1..Len(batch.runs) :
                        /\ batch.runs[k].name = n
                        /\ batch.runs[k].executed
                        /\ Len(batch.runs[k].rows) = 1

\* C3: an exception of log_run never leaves the plugin run, and a sequential
\* batch in which a write failed still runs every selected plugin and ends
\* normally.
C3_StoreFailureContained ==
    /\ (last.op \in RunOps /\ LogRunRaised) => last.raised = NoExc
    /\ (batch.mode = "none" /\ batch.pc \in {"done", "aborted"}
        /\ \E k \in 1..Len(batch.runs) : batch.runs[k].raised = StoreError)
          => (batch.pc = "done" /\ Len(batch.runs) = Len(batch.selection))

\* C4: a run whose construct, fetch, transform and deliver all return records
\* exactly one row, of status success; and the hello plugin, run on a notifier
\* that never emitted, emits 'Message from hello: Hello, World!'.
C4_SuccessRecorded ==
    (last.op \in RunOps
     /\ \E i \in Events(last.trace, {"deliver"}) : last.trace[i].out = "ok") =>
        /\ Len(last.rows) = 1
        /\ last.rows[1].status = "success"
        /\ (last.name = "hello" /\ disk["hello"].impl = "hello" /\ last.fresh) =>
              \E i \in 1..Len(last.out) :
                 last.out[i].msg = "Message from hello: Hello, World!"

StageOrder == <<"load_config", "load_integration", "construct", "fetch",
                "transform", "deliver", "notify", "log_run">>

IsFailureRecord(e) == e.stage = "log_run" /\ e.arg = "failed"

\* the trace up to the recording of a failure
Body(trace) ==
    LET F == {i \in 1..Len(trace) : IsFailureRecord(trace[i])}
    IN  IF F = {} THEN trace
        ELSE SubSeq(trace, 1, (CHOOSE i \in F : \A j \in F : i <= j) - 1)

ReturnedNormally(e) ==
    /\ e.out # "raise"
    /\ e.stage = "load_config" => e.out = "enabled"
    /\ e.stage = "load_integration" => e.out # None

\* C5: within one plugin run the stages happen in the order load config, load
\* implementation, construct, fetch, transform, deliver, record success, each
\* at most once and only after every earlier one returned normally; transform
\* receives what fetch returned, deliver what transform returned, and a
\* success row is recorded only after deliver has returned.
C5_StageOrder ==
    last.op \in RunOps =>
        LET b == Body(last.trace)
        IN  /\ Len(b) <= Len(StageOrder)
            /\ \A i \in 1..Len(b) : b[i].stage = StageOrder[i]
            /\ \A i \in 1..Len(b) : \A j \in 1..Len(b) :
                  i < j => ReturnedNormally(b[i])
            /\ \A i \in Len(b) + 1..Len(last.trace) : IsFailureRecord(last.trace[i])
            /\ Len(last.trace) <= Len(b) + 1
            /\ Len(b) >= 5 => b[5].arg = b[4].out
            /\ Len(b) >= 6 => b[6].arg = b[5].out
            /\ (\E k \in 1..Len(last.rows) : last.rows[k].status = "success") =>
                  (Len(b) = 8 /\ b[6].out = "ok" /\ b[8].out = "ok")

\* a run of a stub plugin in which every stage ran and the success row was written
C5_Witness ==
    /\ last.op \in RunOps
    /\ disk[last.name].impl = "stub"
    /\ Len(last.trace) = 8
    /\ Len(last.rows) = 1
    /\ last.rows[1].status = "success"

\* C6: a run of a plugin whose config has 'enabled' false or absent loads and
\* constructs nothing, executes no stage, sends no notification and records no
\* row, in each of the three modes.
C6_DisabledIsSkipped ==
    (last.op \in RunOps /\ disk[last.name].cfg # "enabled") =>
        /\ Events(last.trace, {"load_integration", "construct", "fetch", "transform",
                               "deliver", "notify", "log_run"}) = {}
        /\ last.out = <<>>
        /\ last.rows = <<>>
        /\ last.raised = NoExc

\* a disabled plugin was run as a task of a cooperative batch
C6_Witness ==
    /\ last.op = "run_integration_async"
    /\ batch.mode = "asyncio"
    /\ disk[last.name].cfg = "disabled"
    /\ last.returned

\* C7: load never raises and answers not-found for a module that is absent,
\* fails to import or holds no Integration subclass; a run of such a plugin is
\* skipped without a row and without raising, and the batch goes on.
C7_UnresolvableIsSkipped ==
    /\ (last.op \in RunOps /\ disk[last.name].cfg = "enabled"
        /\ ~Resolvable(last.name)) =>
          /\ LoadIntegration(disk, last.name).exc = NoExc
          /\ LoadIntegration(disk, last.name).cls = None
          /\ last.raised = NoExc
          /\ last.rows = <<>>
    /\ (batch.mode = "none" /\ batch.pc \in {"done", "aborted"}
        /\ \A k \in 1..Len(batch.runs) : batch.runs[k].rows # <<>>
                                          \/ ~Resolvable(batch.runs[k].name)
                                          \/ disk[batch.runs[k].name].cfg # "enabled")
          => Len(batch.runs) = Len(batch.selection)

\* the cache file held a usable verdict for n at time t
Fresh(c, n, t) ==
    n \in DOMAIN c /\ c[n].form = "ok" /\ t - c[n].timestamp < CacheTTL

\* C8: validate of a disabled plugin with no fresh cache entry returns true
\* without loading or constructing the implementation, loadable or not.
C8_DisabledIsValid ==
    (last.op = "validate_integration" /\ disk[last.name].cfg # "enabled"
     /\ ~Fresh(last.cacheBefore, last.name, last.at)) =>
        /\ last.returned
        /\ last.ret
        /\ last.raised = NoExc
        /\ Events(last.trace, {"load_integration", "construct"}) = {}

\* validate answered true for a disabled plugin whose module cannot be imported
C8_Witness ==
    /\ last.op = "validate_integration"
    /\ disk[last.name].cfg = "disabled"
    /\ disk[last.name].impl = "import_crash"
    /\ last.returned
    /\ last.ret

\* C9: with no fresh cache entry, validate of an enabled plugin returns true
\* exactly when load finds an implementation and constructing it does not
\* raise, and false when load answers not-found or the construction raises; a
\* plugin not present on disk is not found.
C9_ValidateVerdict ==
    (last.op = "validate_integration" /\ disk[last.name].cfg = "enabled"
     /\ ~Fresh(last.cacheBefore, last.name, last.at)) =>
        LET n == last.name
            found == Resolvable(n)
            notFound == disk[n].impl \in {"absent", "import_error", "no_subclass"}
            constructRaises == StageRaises(disk, n, "construct")
        IN  /\ disk[n].impl = "absent" =>
                  /\ LoadIntegration(disk, n).cls = None
                  /\ LoadIntegration(disk, n).exc = NoExc
            /\ last.returned => (last.ret <=> (found /\ ~constructRaises))
            /\ (notFound \/ (found /\ constructRaises)) =>
                  (last.returned /\ ~last.ret)
            /\ (found /\ ~constructRaises) => (last.returned /\ last.ret)

\* validate answered false because the constructor of an enabled plugin raised
C9_Witness ==
    /\ last.op = "validate_integration"
    /\ disk[last.name].cfg = "enabled"
    /\ disk[last.name].failAt = "construct"
    /\ last.returned
    /\ ~last.ret
    /\ \E i \in Events(last.trace, {"construct"}) : last.trace[i].out = "raise"

\* C10: a plugin whose config manifest is missing is treated as disabled:
\* load_config gives the empty mapping, a run of it is skipped without a row,
\* and validate with no fresh cache entry returns true.
C10_MissingConfigIsDisabled ==
    (last.op # "none" /\ disk[last.name].cfg = "missing") =>
        /\ DOMAIN LoadConfig(disk, last.name) = {}
        /\ last.raised = NoExc
        /\ last.op \in RunOps =>
              /\ last.rows = <<>>
              /\ last.out = <<>>
              /\ Events(last.trace, PluginStages \cup {"load_integration"}) = {}
        /\ (last.op = "validate_integration"
            /\ ~Fresh(last.cacheBefore, last.name, last.at)) =>
              (last.returned /\ last.ret)

\* a plugin with a module but no manifest was run and skipped
C10_Witness ==
    /\ last.op = "run_integration"
    /\ disk[last.name].cfg = "missing"
    /\ disk[last.name].impl = "stub"
    /\ last.returned
    /\ telemetry = <<>>

(***************************************************************************)
(* The validation cache.                                                   *)
(***************************************************************************)
IsValidate(c) == c.op = "validate_integration"

\* the call was answered from the cache file: nothing was loaded
FromCache(c) == IsValidate(c) /\ c.returned /\ c.trace = <<>>

Constructions(c) == Cardinality(Events(c.trace, {"construct"}))

\* the step is a validate call that follows the validate call recorded in
\* last, for the same name, inside the TTL window of the entry the first
\* call wrote or was answered from
SecondValidateInWindow ==
    /\ ops' = ops + 1
    /\ IsValidate(last')
    /\ IsValidate(last)
    /\ last'.name = last.name
    /\ last.returned
    /\ \/ ~FromCache(last) /\ last.saved /\ last'.at - last.at < CacheTTL
       \/ /\ FromCache(last)
          /\ last'.at - last.cacheBefore[last.name].timestamp < CacheTTL

\* C11: of two validate calls for one name inside the TTL window, with the
\* disk untouched between them and the cache write of the first succeeding,
\* the second returns what the first returned, is answered from the cache,
\* and the plugin is constructed at most once over the two calls.
C11_ValidateIdempotent ==
    [][SecondValidateInWindow =>
          /\ last'.returned
          /\ last'.ret = last.ret
          /\ FromCache(last')
          /\ Constructions(last) + Constructions(last') <= 1]_vars

\* a validate call that constructed the plugin and stored its verdict was
\* followed, in a later process inside the window, by one answered from the cache
C11_Witness ==
    /\ FromCache(last)
    /\ last.at = T0 + 5
    /\ last.name = "p1"
    /\ last.cacheBefore = CachePut(EmptyCache, "p1", CacheEntry(last.ret, T0))
    /\ disk["p1"].cfg = "enabled"
    /\ disk["p1"].impl = "stub"

\* the entry the cache file held for the name when the call was made
HadEntry(c) == c.name \in DOMAIN c.cacheBefore

EntryBefore(c) == c.cacheBefore[c.name]

Expired(c) ==
    EntryBefore(c).form \in {"ok", "no_valid"} /\ c.at - EntryBefore(c).timestamp >= CacheTTL

Malformed(c) == EntryBefore(c).form # "ok"

\* C12: validate returns a cached verdict only from an entry whose timestamp
\* parses and is younger than 24 hours; an entry that is expired or malformed
\* (no 'timestamp', no 'valid', a timestamp that does not parse) is never
\* returned and never makes the call raise: the verdict is recomputed and,
\* the write succeeding, the entry overwritten.
C12_CacheAuthority ==
    IsValidate(last) =>
        /\ FromCache(last) =>
              /\ HadEntry(last)
              /\ EntryBefore(last).form = "ok"
              /\ last.at - EntryBefore(last).timestamp < CacheTTL
              /\ last.ret = EntryBefore(last).valid
        /\ (HadEntry(last) /\ (Expired(last) \/ Malformed(last))) =>
              /\ ~FromCache(last)
              /\ last.raised # BadTimestamp
              /\ Events(last.trace, {"load_config"}) # {}
              /\ (last.returned /\ last.saved) =>
                    cache[last.name] = CacheEntry(last.ret, last.at)

\* C13: a validate call that recomputes a verdict, the disabled case
\* included, and whose cache write succeeds leaves an entry for the name
\* holding that verdict and the time of the call; so after a validate call
\* that was answered from the cache or wrote it, the value returned is the
\* 'valid' field stored for the name.
C13_VerdictWrittenBack ==
    (IsValidate(last) /\ last.returned) =>
        /\ (~FromCache(last) /\ last.saved) =>
              /\ last.name \in DOMAIN cache
              /\ cache[last.name] = CacheEntry(last.ret, last.at)
        /\ (FromCache(last) \/ last.saved) =>
              /\ last.name \in DOMAIN cache
              /\ cache[last.name].form = "ok"
              /\ cache[last.name].valid = last.ret

\* the verdict of a disabled plugin replaced an expired entry that said invalid
C13_Witness ==
    /\ IsValidate(last)
    /\ last.name = "p1"
    /\ disk["p1"].cfg = "disabled"
    /\ HadEntry(last)
    /\ Expired(last)
    /\ ~EntryBefore(last).valid
    /\ cache["p1"] = CacheEntry(TRUE, last.at)

(***************************************************************************)
(* The notifier.                                                           *)
(***************************************************************************)
EmitOps == {"notify", "report_issue", "log_with_backoff"}

IsEmit(c) == c.op \in EmitOps

\* the call was made inside the suppression window of its channel
InsideWindow(c) == c.at < c.before[1] + Delay(c.before[2])

\* C14: an emit invoked while the current time is inside the suppression
\* window of its channel returns emitted = false and logs nothing.
C14_SuppressedInsideWindow ==
    (IsEmit(last) /\ InsideWindow(last)) => (~last.ret /\ last.out = <<>>)

\* C15: an emit invoked outside the suppression window of its channel, the
\* first emit on a channel never used included, logs exactly once, returns
\* emitted = true and leaves the channel at last_emit_time = now,
\* retry_count = 0.
C15_EmittedOutsideWindow ==
    (IsEmit(last) /\ ~InsideWindow(last)) =>
        /\ last.ret
        /\ Len(last.out) = 1
        /\ last.out[1].time = last.at
        /\ last.out[1].key = last.name
        /\ BackoffGet(support, last.name) = <<last.at, 0>>

\* the first report on a channel that had never been used was emitted
C15_Witness ==
    /\ last.op = "report_issue"
    /\ last.fresh
    /\ last.ret
    /\ Len(emitted) > 1
    /\ support[last.name] = <<last.at, 0>>

\* C16: a suppressed emit leaves last_emit_time of its channel unchanged and
\* sets retry_count to 0; so with initial_delay = 1.0 a call 0.5 s after an
\* emission on the channel is suppressed and a call 1.1 s after it is emitted.
C16_SuppressedKeepsLastEmit ==
    IsEmit(last) =>
        /\ ~last.ret => BackoffGet(support, last.name) = <<last.before[1], 0>>
        /\ (last.before[2] = 0 /\ last.at = last.before[1] + 5) => ~last.ret
        /\ (last.before[2] = 0 /\ last.at = last.before[1] + 11) => last.ret

\* C17: the suppression window an emit uses is
\* min(initial_delay * multiplier^retry_count, max_delay), which lies
\* between initial_delay and max_delay: the first attempt logs exactly when
\* that much time has passed since the channel's last_emit_time.
C17_WindowFormula ==
    IsEmit(last) =>
        LET rc == last.before[2]
            grown == InitialDelay * Pow(Multiplier, rc)
            window == IF grown < MaxDelay THEN grown ELSE MaxDelay
        IN  /\ Delay(rc) = window
            /\ InitialDelay <= Delay(rc)
            /\ Delay(rc) <= MaxDelay
            /\ (last.ret /\ last.tries = 1)
                  <=> last.at >= last.before[1] + window

\* a channel with retry_count 7 emitted exactly max_delay after its last emission
C17_Witness ==
    /\ IsEmit(last)
    /\ last.before = <<T0 - MaxDelay, 7>>
    /\ last.at = T0
    /\ last.ret
    /\ last.tries = 1

(***************************************************************************)
(* Filtering.                                                              *)
(***************************************************************************)
IsFilter(c) == c.op = "filter_integrations" /\ c.returned

CriteriaFields == DOMAIN NoCriteria

Specified(criteria, f) == criteria[f] # NoCriteria[f]

\* the criteria that specify field f as `criteria` does and nothing else
Single(criteria, f) == [NoCriteria EXCEPT ![f] = criteria[f]]

\* `criteria` with field f left unspecified
Without(criteria, f) == [criteria EXCEPT ![f] = NoCriteria[f]]

\* plugin n passes the filter that specifies field f alone
SatisfiesAlone(n, criteria, f) == FilterOne(disk, n, Single(criteria, f)) = "keep"

\* C18: a call of filter_integrations that returns holds a discovered plugin
\* exactly when the plugin passes each specified criterion taken alone; so
\* every plugin in the result is also in the result of the same criteria
\* with any one of them left out.
C18_FilterIsConjunction ==
    IsFilter(last) =>
        \A n \in Discovered(disk) :
            /\ n \in Range(last.filtered)
                  <=> \A f \in CriteriaFields : SatisfiesAlone(n, last.criteria, f)
            /\ n \in Range(last.filtered)
                  => \A f \in CriteriaFields :
                        FilterOne(disk, n, Without(last.criteria, f)) = "keep"

\* two criteria are specified, "p2" passes both and is returned, "p1" passes
\* one of them alone, fails the other and is left out
C18_Witness ==
    /\ IsFilter(last)
    /\ "p2" \in Range(last.filtered)
    /\ "p1" \notin Range(last.filtered)
    /\ \E f, g \in CriteriaFields :
          /\ Specified(last.criteria, f) /\ Specified(last.criteria, g)
          /\ SatisfiesAlone("p1", last.criteria, f)
          /\ ~SatisfiesAlone("p1", last.criteria, g)

\* the last-updated value of the plugin is 'N/A' or a string that is no date
UnknownFreshness(d, n) == GetLastUpdated(d, n).kind \in {"na", "garbage"}

\* C19: a call of filter_integrations that returns with last_updated_before
\* or last_updated_after specified holds no plugin whose last-updated value
\* is 'N/A' or does not parse.
C19_UnknownFreshnessExcluded ==
    IsFilter(last)
    /\ (Specified(last.criteria, "last_updated_before")
        \/ Specified(last.criteria, "last_updated_after"))
    => \A n \in Discovered(disk) :
          UnknownFreshness(disk, n) => n \notin Range(last.filtered)

\* the metadata of plugin n has a tags key that holds every requested tag
HasAllTags(d, n, tags) ==
    /\ "meta" \in DOMAIN d[n]
    /\ "tags" \in DOMAIN d[n].meta
    /\ Range(tags) \subseteq d[n].meta.tags

\* C20: a call of filter_integrations that returns with tags specified holds
\* a discovered plugin exactly when its metadata lists every requested tag
\* and it passes the other criteria; a plugin without a tags key is left out.
C20_TagsSubset ==
    IsFilter(last) /\ last.criteria.tags # <<>> =>
        \A n \in Discovered(disk) :
            n \in Range(last.filtered)
               <=> /\ HasAllTags(disk, n, last.criteria.tags)
                   /\ FilterOne(disk, n, Without(last.criteria, "tags")) = "keep"

\* tags "a" and "b" are requested and nothing else: "p1" lists both and is
\* returned, "p2" lists only "a" and "hello" has no metadata; both are left out
C20_Witness ==
    /\ IsFilter(last)
    /\ last.criteria = [NoCriteria EXCEPT !.tags = <<"a", "b">>]
    /\ LoadMetadata(disk, "p2")["tags"] = {"a"}
    /\ "meta" \notin DOMAIN disk["hello"]
    /\ Range(last.filtered) = {"p1"}

(***************************************************************************)
(* The criteria hash and the order of the result.                          *)
(***************************************************************************)
\* the call before this one was a filter_integrations call that returned
HasPrior(c) == IsFilter(c) /\ c.prior # <<>> /\ c.prior[1].returned

\* C21: two calls of filter_integrations with the same eight criteria return
\* the same criteria hash, whatever the plugin directory holds at either
\* call and whatever the two results are.
C21_HashDependsOnCriteriaOnly ==
    HasPrior(last) /\ last.prior[1].criteria = last.criteria
        => last.criteria_hash = last.prior[1].criteria_hash

\* the same criteria selected different plugins in two calls
C21_Witness ==
    /\ HasPrior(last)
    /\ last.prior[1].criteria = last.criteria
    /\ Specified(last.criteria, "tags")
    /\ Range(last.prior[1].filtered) # Range(last.filtered)
    /\ last.filtered # <<>>

\* C22: the list returned by filter_integrations is the same for every
\* order in which the directory listing can yield the plugins.
C22_ResultOrderDeterministic ==
    IsFilter(last) =>
        \A order \in Orders(Discovered(disk)) :
            FilterIntegrations(disk, order, last.criteria).filtered = last.filtered

(***************************************************************************)
(* The selection of run_filtered.                                          *)
(***************************************************************************)
\* the plugins the eight criteria keep
Matching(criteria) == {n \in Discovered(disk) : FilterOne(disk, n, criteria) = "keep"}

RunNames == {batch.runs[i].name : i \in 1..Len(batch.runs)}

C24_EmptySelectionIsNoOp ==
    batch.pc # "idle" /\ Matching(batch.criteria) = {} =>
        /\ batch.pc = "done"
        /\ batch.raised = NoExc
        /\ batch.runs = <<>>
        /\ batch.pending = {}
        /\ last = NoCall
        /\ telemetry = <<>>
        /\ emitted = <<>>

\* plugins are on disk, none matches, the process-parallel batch is over
C24_Witness ==
    /\ batch.pc = "done"
    /\ batch.mode = "multiprocessing"
    /\ Discovered(disk) # {}
    /\ Matching(batch.criteria) = {}
    /\ batch.runs = <<>>

(***************************************************************************)
(* The parallel modes.                                                     *)
(***************************************************************************)
\* C25: in asyncio mode no exception of a task leaves run_filtered or stops
\* the batch: the batch ends only when every selected plugin has been run,
\* in the order of the selection, and each exception is kept as the result
\* of its task.
C25_GatherSettlesAll ==
    batch.mode = "asyncio" /\ batch.pc # "idle" =>
        /\ batch.pc \in {"running", "done"}
        /\ batch.raised = NoExc
        /\ Len(batch.captured)
              = Cardinality({i \in 1..Len(batch.runs) : batch.runs[i].raised # NoExc})
        /\ batch.pc = "done" =>
              /\ Len(batch.runs) = Len(batch.selection)
              /\ \A i \in 1..Len(batch.runs) : batch.runs[i].name = batch.selection[i]

\* the first task raised, and the tasks after it ran and wrote their rows
C25_Witness ==
    /\ batch.mode = "asyncio"
    /\ batch.pc = "done"
    /\ Len(batch.runs) = 3
    /\ batch.runs[1].raised # NoExc
    /\ batch.runs[2].executed /\ batch.runs[2].raised = NoExc
    /\ batch.runs[3].executed /\ Len(batch.runs[3].rows) = 1

\* the tasks whose run has begun: a task begins and settles in one step
Started == RunNames

\* C26: in asyncio mode the selected plugins are started together: when the
\* first run has settled, the run of every other selected plugin has begun.
C26_TasksStartedTogether ==
    batch.mode = "asyncio" /\ batch.runs # <<>> =>
        Range(batch.selection) \subseteq Started

\* the notification a plugin sends from deliver_results is in the output
FirstNotificationEmitted(c) ==
    \A i \in 1..Len(c.trace) :
        (c.trace[i].stage = "deliver" /\ c.trace[i].out = "ok") =>
            /\ c.out # <<>>
            /\ c.out[1].msg = DeliverMessage(disk, c.name, c.trace[i].arg)
            /\ c.out[1].time = c.at

\* C27: in a worker of the process pool the first notification of a run is
\* emitted, whatever the other workers have emitted on the same channel.
C27_WorkersShareNoBackoff ==
    last.op = "_run_integration" /\ batch.mode = "multiprocessing"
        => FirstNotificationEmitted(last)

\* two workers have emitted on the same channel at the same time
C27_Witness ==
    /\ last.op = "_run_integration"
    /\ batch.mode = "multiprocessing"
    /\ last.out # <<>>
    /\ \E i, j \in 1..Len(emitted) :
          /\ emitted[i].proc # emitted[j].proc
          /\ emitted[j].proc = last.name
          /\ emitted[i].key = emitted[j].key
          /\ i < j
          /\ emitted[j].time < emitted[i].time + Delay(0)

(***************************************************************************)
(* The metrics store.                                                      *)
(***************************************************************************)
StoreOps == {"log_run", "generate_report", "get_last_updated", "_initialize_db"}

IsPrefix(a, b) == Len(a) <= Len(b) /\ \A i \in 1..Len(a) : b[i] = a[i]

\* C28: every step leaves the rows already in the table as they are; a
\* log_run that returns adds one row, the one it was given, and
\* generate_report, get_last_updated and the construction of a
\* TelemetryManager add none.
C28_AppendOnly ==
    [][/\ IsPrefix(telemetry, telemetry')
       /\ (ops' # ops /\ last'.op = "log_run" /\ last'.returned) =>
             /\ Len(telemetry') = Len(telemetry) + 1
             /\ telemetry'[Len(telemetry')].integration_name = last'.name
             /\ telemetry'[Len(telemetry')].timestamp = last'.at
       /\ (ops' # ops /\ last'.op \in StoreOps \ {"log_run"}) =>
             telemetry' = telemetry]_vars

\* get_last_updated was called on a table that holds rows, after a log_run
C28_Witness ==
    /\ last.op = "get_last_updated"
    /\ Len(telemetry) = 4
    /\ telemetry[4].timestamp = now
    /\ last.rowsBefore = telemetry

\* the calendar month a period names; "2025-1" is January 2025 written
\* without the zero
MonthNamed(period) ==
    CASE period = "2024-11" -> [year |-> 2024, month |-> 11]
      [] period = "2024-12" -> December
      [] period \in {"2025-01", "2025-1"} -> January
      [] OTHER -> [year |-> 0, month |-> 0]

NamesMonth(period) == MonthNamed(period).month # 0

NextMonth(ym) ==
    IF ym.month = 12 THEN [year |-> ym.year + 1, month |-> 1]
    ELSE [year |-> ym.year, month |-> ym.month + 1]

\* the rows of plugin n whose timestamp is in the month
RowsOf(n, ym) ==
    {i \in 1..Len(telemetry) :
        /\ telemetry[i].integration_name = n
        /\ telemetry[i].timestamp >= MonthStart(ym)
        /\ telemetry[i].timestamp < MonthStart(NextMonth(ym))}

RECURSIVE DurationOver(_)
DurationOver(I) ==
    IF I = {} THEN 0
    ELSE LET i == CHOOSE j \in I : TRUE
         IN  telemetry[i].duration + DurationOver(I \ {i})

\* C29: a report for a calendar month is written and holds one summary row
\* for each plugin with a row in the month and none for the others; its
\* counts and its average duration are taken over exactly those rows.
C29_MonthlyReport ==
    last.op = "generate_report" /\ NamesMonth(last.period) =>
        LET ym == MonthNamed(last.period)
        IN  /\ last.wrote
            /\ \A n \in Names :
                  Cardinality({r \in last.report : r.integration_name = n})
                     = IF RowsOf(n, ym) # {} THEN 1 ELSE 0
            /\ \A r \in last.report :
                  LET I == RowsOf(r.integration_name, ym)
                  IN  /\ r.run_count = Cardinality(I)
                      /\ r.success_count
                            = Cardinality({i \in I : telemetry[i].status = "success"})
                      /\ r.error_count
                            = Cardinality({i \in I : telemetry[i].status = "failed"})
                      /\ r.avg_duration.num = DurationOver(I)
                      /\ r.avg_duration.den = Cardinality(I)

\* December 2024 holds two successes and a failure of "p1" that took 1 s,
\* 2 s and 3 s, the first at the first instant of the month and the last at
\* its last tick: the report has one row, 3 runs, 2 successes, 1 failure,
\* 2 s on average
C29_Witness ==
    /\ last.op = "generate_report"
    /\ last.period = "2024-12"
    /\ Len(telemetry) = 3
    /\ telemetry[1].timestamp = MonthStart(December)
    /\ telemetry[3].timestamp = MonthStart(January) - 1
    /\ last.report = {[integration_name |-> "p1", run_count |-> 3, success_count |-> 2,
                        error_count |-> 1, avg_duration |-> [num |-> 60, den |-> 3]]}

HasRun(rows, n) == \E i \in DOMAIN rows : rows[i].integration_name = n

\* C31: get_last_updated(name) answers with the most recent stored timestamp
\* of the plugin when the store holds a run of it, otherwise with the
\* metadata's last_updated when present, otherwise with the directory's
\* modification time when the directory exists, otherwise with 'N/A'
C31_ResolutionOrder ==
    last.op = "get_last_updated" =>
        LET n == last.name
            rows == last.rowsBefore
            metadata == LoadMetadata(disk, n)
        IN  last.value =
              IF HasRun(rows, n) THEN MaxTimestamp(rows, n)
              ELSE IF "last_updated" \in DOMAIN metadata THEN metadata["last_updated"]
              ELSE IF disk[n].impl # "absent" \/ disk[n].cfg # "missing" THEN Iso(DirMTime)
              ELSE NA

(***************************************************************************)
(* Concurrent validations on one cache file.                               *)
(***************************************************************************)
\* C32: the last writer wins: when a validation has saved, the file is the
\* document that validation had read with its own entry put in, so an entry
\* another validation wrote after that read is lost
C32_LastWriterWins ==
    (last.op = "validate_integration" /\ last.saved) =>
        \A m \in Racers \ {last.name} :
            /\ m \in DOMAIN cache <=> m \in DOMAIN batch.procs[last.name].doc
            /\ m \in DOMAIN cache => cache[m] = batch.procs[last.name].doc[m]

\* both validations have saved and the file holds no entry for p1
C32_Witness ==
    /\ batch.pc = "race"
    /\ \A n \in Racers : batch.procs[n].pc = "done" /\ batch.procs[n].wrote
    /\ last.name = "p2"
    /\ "p2" \in DOMAIN cache
    /\ "p1" \notin DOMAIN cache

(***************************************************************************)
(* Plugins whose fetch suspends.                                           *)
(***************************************************************************)
\* C33: in a run of a plugin whose fetch_data is a coroutine function,
\* transform is given the data that fetch produces, and the row recorded
\* for the run has the status 'success'
C33_AsyncFetchResolved ==
    (last.op \in RunOps /\ disk[last.name] = WeatherProfile) =>
        /\ \A i \in 1..Len(last.trace) :
              last.trace[i].stage = "transform" => last.trace[i].arg = "raw " \o last.name
        /\ \A i \in 1..Len(last.rows) : last.rows[i].status = "success"

(***************************************************************************)
(* The life of one batch.                                                  *)
(***************************************************************************)
RowsNaming(rows, n) == {i \in DOMAIN rows : rows[i].integration_name = n}

BatchOrdered ==
    /\ batch.pc = "idle" => batch.runs = <<>> /\ telemetry = <<>>
    /\ \A i \in 1..Len(batch.runs) : batch.runs[i].name \in Range(batch.selection)
    /\ \A i, j \in 1..Len(batch.runs) : batch.runs[i].name = batch.runs[j].name => i = j
    /\ \A n \in Names : Cardinality(RowsNaming(telemetry, n)) <= 1
    /\ \A n \in Names : RowsNaming(telemetry, n) # {} => \E i \in 1..Len(batch.runs) : batch.runs[i].name = n

BatchSettles ==
    /\ batch.pc \in {"done", "aborted"} => batch' = batch /\ telemetry' = telemetry
    /\ batch.pc # "idle" => batch'.selection = batch.selection /\ batch'.pc # "idle"
    /\ IsPrefix(batch.runs, batch'.runs)
    /\ IsPrefix(telemetry, telemetry')

\* C34: in one batch no plugin runs before discovery and filtering are
\* over, every selected plugin runs at most once, a run that has ended is
\* never repeated and a batch that has ended does nothing more, and the
\* batch records at most one row for each selected plugin
C34_BatchLifecycle == []BatchOrdered /\ [][BatchSettles]_vars

\* a sequential batch over several plugins has ended and one of them failed
C34_Witness ==
    /\ batch.pc = "done"
    /\ batch.mode = "none"
    /\ Len(batch.runs) >= 2
    /\ \E i \in 1..Len(batch.runs) :
          Len(batch.runs[i].rows) = 1 /\ batch.runs[i].rows[1].status = "failed"

(***************************************************************************)
(* The rows a batch leaves, mode by mode.                                  *)
(***************************************************************************)
StatusesOf(rows, n) ==
    [i \in 1..Cardinality(RowsNaming(rows, n)) |->
        rows[CHOOSE k \in RowsNaming(rows, n) :
                Cardinality({j \in RowsNaming(rows, n) : j < k}) = i - 1].status]

\* the outcome the plugin's directory determines, whatever the mode
DeterminedStatuses(d, n) ==
    IF d[n].cfg # "enabled" \/ d[n].impl \notin {"hello", "stub", "weather"} THEN <<>>
    ELSE IF d[n].impl = "stub" /\ d[n].failAt # "none" THEN <<"failed">>
    ELSE <<"success">>

NoStoreFault ==
    /\ \A i \in 1..Len(batch.runs) : batch.runs[i].raised # StoreError
    /\ \A i \in 1..Len(telemetry) : telemetry[i].error # StoreError

\* C35: when a batch has ended, the rows it recorded are, in every mode,
\* the ones the selected plugins determine: none for a disabled or
\* unloadable plugin, one 'failed' row for a plugin that throws, one
\* 'success' row for each of the others
C35_ModesRecordSameOutcomes ==
    (batch.pc \in {"done", "aborted"} /\ NoStoreFault) =>
        \A n \in Names :
            StatusesOf(telemetry, n) =
                IF n \in Range(batch.selection) THEN DeterminedStatuses(disk, n) ELSE <<>>

(***************************************************************************)
(* The retry count of a channel.                                           *)
(***************************************************************************)
\* C36: on a SupportManager that starts with no channel, every channel's
\* retry_count is 0 after any emits, emitted or suppressed, so the window
\* in effect is initial_delay and every emit was judged against that window
C36_RetryCountZero ==
    /\ \A k \in DOMAIN support :
          support[k][2] = 0 /\ Delay(support[k][2]) = InitialDelay
    /\ last.op \in EmitOps => Delay(last.before[2]) = InitialDelay

\* a third emit on a channel has just been suppressed
C36_Witness ==
    /\ last.op \in EmitOps
    /\ ~last.ret
    /\ ops = MaxEmits
    /\ last.name \in DOMAIN support
    /\ Len(emitted) >= 1

(***************************************************************************)
(* Channels and plugins.                                                   *)
(***************************************************************************)
\* C37: within one process the channels are per plugin: the channels in use
\* are named after the plugins, and in a batch, where every plugin runs
\* once, the notification that a plugin's deliver_results sends is emitted
\* whatever the plugins run before it have notified
C37_ChannelsPerPlugin ==
    (last.op \in {"run_integration", "run_integration_async"} /\ batch.pc # "idle") =>
        /\ FirstNotificationEmitted(last)
        /\ \A k \in DOMAIN support : \E n \in Names : k = NotifyKey(n)

(***************************************************************************)
(* The attempts of one emit.                                               *)
(***************************************************************************)
\* C38: a call of log_with_backoff, direct or through notify or
\* report_issue, makes at most three attempts and logs its message at most
\* once, exactly when it returns emitted = true; it returns emitted = false
\* only if its attempts all fell inside the suppression window: the first
\* inside the window the channel had, the later ones, up to the last,
\* inside the window of the reset retry count
C38_BoundedAttempts ==
    IsEmit(last) =>
        /\ last.tries \in 1..MaxTries
        /\ MaxTries = 3
        /\ Len(last.out) <= 1
        /\ last.ret <=> Len(last.out) = 1
        /\ ~last.ret =>
              /\ InsideWindow(last)
              /\ last.ended < last.before[1] + Delay(0)

\* an emit on a channel that had emitted before gave up after three attempts
C38_Witness ==
    /\ IsEmit(last)
    /\ ~last.ret
    /\ last.tries = MaxTries
    /\ Len(emitted) >= 1
    /\ last.out = <<>>

(***************************************************************************)
(* The counts of a report.                                                 *)
(***************************************************************************)
RECURSIVE RunCountOver(_)
RunCountOver(report) ==
    IF report = {} THEN 0
    ELSE LET r == CHOOSE x \in report : TRUE
         IN  r.run_count + RunCountOver(report \ {r})

\* C39: on a store holding runs recorded with the statuses the engine uses,
\* every summary row of a report has run_count = success_count +
\* error_count, and the run counts of the report add up to the number of
\* stored rows whose timestamp is in the period
C39_CountsAddUp ==
    (last.op = "generate_report" /\ last.wrote) =>
        LET ym == MonthNamed(last.period)
        IN  /\ \A r \in last.report : r.run_count = r.success_count + r.error_count
            /\ RunCountOver(last.report)
                  = Cardinality({i \in 1..Len(telemetry) :
                                    /\ telemetry[i].timestamp >= MonthStart(ym)
                                    /\ telemetry[i].timestamp < MonthStart(NextMonth(ym))})

\* a report over two plugins, one of them with a success and a failure in
\* the period
C39_Witness ==
    /\ last.op = "generate_report"
    /\ last.wrote
    /\ Cardinality(last.report) = 2
    /\ \E r \in last.report : r.success_count >= 1 /\ r.error_count >= 1

(***************************************************************************)
(* The order of the requested tags.                                        *)
(***************************************************************************)
SameButTagOrder(c1, c2) ==
    /\ Range(c1.tags) = Range(c2.tags)
    /\ Len(c1.tags) = Len(c2.tags)
    /\ [c1 EXCEPT !.tags = <<>>] = [c2 EXCEPT !.tags = <<>>]

\* C40: two calls of filter_integrations whose criteria differ only in the
\* order in which the same tags are listed return the same criteria hash,
\* and the two criteria keep the same plugins of any plugin tree
C40_TagOrderIrrelevant ==
    (HasPrior(last) /\ SameButTagOrder(last.prior[1].criteria, last.criteria)) =>
        /\ last.criteria_hash = last.prior[1].criteria_hash
        /\ \A order \in Orders(Discovered(disk)) :
              FilterIntegrations(disk, order, last.prior[1].criteria).filtered
                 = FilterIntegrations(disk, order, last.criteria).filtered

====
